---- MODULE Spec2Model ----
(***************************************************************************)
(* A model of the Coda -> Framer CMS plugin (src/src/data.ts, App.tsx and  *)
(* FieldMapping.tsx): the type mapper, the value transformer, the loader   *)
(* getCodaDataSource and the orchestrator syncCollection with its callers. *)
(*                                                                         *)
(* Text is modelled as a sequence of lexical tokens (TLA+ strings): " " is *)
(* white space, "<tick>" a backtick, "<fence>" three of them, "https://" a URL scheme, "2024-09-30" a    *)
(* calendar day, and so on.  The string operations of the code (trim,      *)
(* startsWith, includes, the regular expressions) are computed on these    *)
(* sequences; no token of the model straddles a boundary they look for.    *)
(***************************************************************************)
EXTENDS Integers, Sequences, FiniteSets, TLC

VARIABLES
    machineTz,      \* UTC offset (hours) of the machine running the plug-in
    tInput,         \* transformCodaValue: the arguments of the call under test
    tResult,        \* transformCodaValue: what the call returned
    mColumn,        \* mapCodaTypeToFramerType: the column under test
    mResult,        \* mapCodaTypeToFramerType: what the call returned
    eInput,         \* the field list of getCodaDataSource: the rows and declared
                    \* choices of two loads of one table, [first, second]
    eFirst,         \* the fields the first load built
    eSecond,        \* the fields the second load built
    lInput,         \* findCollectionByCodaTableId: the lookup column, the managed
                    \* collections and how the upstream and Framer answer
    lResult,        \* what the call returned, and the field the column became
    uInput,         \* getCodaDataSource: the upstream's answers to the requests for
                    \* the table, the columns and the rows
    uResult,        \* how the requests of the call ended
    table,          \* the upstream Coda table: [id, columns, rows]
    framerData,     \* framer.getPluginData: [use12HourTimeFormat]
    dest,           \* the managed collection: [itemIds, fields, pluginData]
    props,          \* App props: [previousDataSourceId, previousSlugFieldId]
    app,            \* App: [mounted, dataSourceResult, isLoadingDataSource]
    load,           \* the data source load of App: [pc, via, aborted, fetched]
    form,           \* FieldMapping: [mounted, status, fieldsLoaded, fields,
                    \*                ignoredFieldIds, selectedSlugField]
    syncs,          \* the calls of syncCollection, in the order they started
    calls,          \* the writing calls made on the collection, in order, by
                    \* caller: calls[0] by App, calls[k] by the k-th syncCollection
    notices         \* the framer.notify and framer.closePlugin messages shown so far

enumVars == <<eInput, eFirst, eSecond>>
lookupVars == <<lInput, lResult>>
requestVars == <<uInput, uResult>>
pureVars == <<tInput, tResult, mColumn, mResult, enumVars, lookupVars, requestVars>>
flowVars == <<table, framerData, dest, props, app, load, form, syncs, calls, notices>>
vars == <<machineTz, pureVars, flowVars>>

----------------------------------------------------------------------------
(* JavaScript values *)

Null == [k |-> "null"]
Undefined == [k |-> "undefined"]
Str(s) == [k |-> "string", s |-> s]
Num(n) == [k |-> "number", n |-> n, d |-> 1]
Bool(b) == [k |-> "boolean", b |-> b]
Arr(e) == [k |-> "array", e |-> e]
Obj(p) == [k |-> "object", p |-> p]

\* What a call that throws gives its caller.
Thrown == [k |-> "throw"]

IsString(v) == v.k = "string"
IsNumber(v) == v.k = "number"
IsArray(v) == v.k = "array"
\* typeof v === 'object' && v !== null && !Array.isArray(v)
IsPlainObject(v) == v.k = "object"
\* 'name' in v && typeof v.name === 'string'
HasStringProp(v, name) == IsPlainObject(v) /\ name \in DOMAIN v.p /\ IsString(v.p[name])

Range(s) == {s[i] : i \in 1..Len(s)}

----------------------------------------------------------------------------
(* String.prototype operations on token sequences *)

IsSpace(t) == t = " "

RECURSIVE TrimStart(_)
TrimStart(s) == IF s # <<>> /\ IsSpace(Head(s)) THEN TrimStart(Tail(s)) ELSE s

RECURSIVE TrimEnd(_)
TrimEnd(s) ==
    IF s # <<>> /\ IsSpace(s[Len(s)]) THEN TrimEnd(SubSeq(s, 1, Len(s) - 1)) ELSE s

Trim(s) == TrimEnd(TrimStart(s))

StartsWith(s, t) == s # <<>> /\ Head(s) = t
Includes(s, t) == t \in Range(s)

\* toLowerCase, token by token.
LowerTok(t) ==
    CASE t = "Image" -> "image"
      [] t = "IMAGE" -> "image"
      [] t = "Graphic" -> "graphic"
      [] t = "Button" -> "button"
      [] t = "Text" -> "text"
      [] t = "A" -> "a"
      [] t = "B" -> "b"
      [] OTHER -> t

ToLowerCase(s) == [i \in 1..Len(s) |-> LowerTok(s[i])]

\* The least j >= i with s[j] = t, or 0.
RECURSIVE IndexFrom(_, _, _)
IndexFrom(s, t, i) ==
    IF i > Len(s) THEN 0
    ELSE IF s[i] = t THEN i
    ELSE IndexFrom(s, t, i + 1)

\* String(v) for the values of the model.
ToStringJS(v) ==
    CASE v.k = "string" -> v.s
      [] v.k = "null" -> <<"null">>
      [] v.k = "undefined" -> <<"undefined">>
      [] v.k = "boolean" -> IF v.b THEN <<"true">> ELSE <<"false">>
      [] v.k = "number" -> IF v.d = 1 THEN <<ToString(v.n)>>
                           ELSE <<ToString(v.n), "/", ToString(v.d)>>
      [] v.k = "array" -> <<"[array]">>
      [] OTHER -> <<"[object Object]">>

----------------------------------------------------------------------------
(* Markdown helpers *)

\* The replacement of one markdown link [linkText](linkUrl).
LinkReplacement(linkText, linkUrl) ==
    IF StartsWith(linkUrl, "mailto:")
    THEN LET emailFromUrl == Tail(linkUrl)
         IN  IF ToLowerCase(linkText) = ToLowerCase(emailFromUrl)
             THEN emailFromUrl
             ELSE linkText
    ELSE linkText

\* text.replace(/\[([^\]]+)]\(([^)]+)\)/g, ...)
RECURSIVE ReplaceLinks(_)
ReplaceLinks(s) ==
    LET i == IndexFrom(s, "[", 1)
        j == IF i = 0 THEN 0 ELSE IndexFrom(s, "]", i + 1)
        m == IF j = 0 \/ j + 1 > Len(s) THEN 0
             ELSE IF s[j + 1] # "(" THEN 0
             ELSE IndexFrom(s, ")", j + 2)
    IN  IF i = 0 THEN s
        ELSE IF j > i + 1 /\ m > j + 2
        THEN SubSeq(s, 1, i - 1)
             \o LinkReplacement(SubSeq(s, i + 1, j - 1), SubSeq(s, j + 2, m - 1))
             \o ReplaceLinks(SubSeq(s, m + 1, Len(s)))
        ELSE SubSeq(s, 1, i) \o ReplaceLinks(SubSeq(s, i + 1, Len(s)))

\* text.replace(/<tick>(...)<tick>/g, (_m, g) => g.trim()): every pair of
\* ticks, left to right, is replaced by its trimmed content.
RECURSIVE Unwrap(_, _)
Unwrap(s, tick) ==
    LET i == IndexFrom(s, tick, 1)
        j == IF i = 0 THEN 0 ELSE IndexFrom(s, tick, i + 1)
    IN  IF j = 0 THEN s
        ELSE SubSeq(s, 1, i - 1) \o Trim(SubSeq(s, i + 1, j - 1))
             \o Unwrap(SubSeq(s, j + 1, Len(s)), tick)

\* A fence that found no partner is three single backticks to the next pass.
RECURSIVE SplitFences(_)
SplitFences(s) ==
    IF s = <<>> THEN <<>>
    ELSE IF Head(s) = "<fence>" THEN <<"<tick>", "<tick>", "<tick>">> \o SplitFences(Tail(s))
    ELSE <<Head(s)>> \o SplitFences(Tail(s))

stripMarkdown(text) ==
    Trim(Unwrap(SplitFences(Unwrap(ReplaceLinks(text), "<fence>")), "<tick>"))

\* text.match(/!\[[^\]]*\]\(([^)]+)\)/): the url of the first markdown image
\* at or after position i, or <<>> when there is none.
RECURSIVE MarkdownImageUrl(_, _)
MarkdownImageUrl(s, i) ==
    IF i + 1 > Len(s) THEN <<>>
    ELSE LET j == IF s[i] = "!" /\ s[i + 1] = "[" THEN IndexFrom(s, "]", i + 2) ELSE 0
             m == IF j = 0 \/ j + 1 > Len(s) THEN 0
                  ELSE IF s[j + 1] # "(" THEN 0
                  ELSE IndexFrom(s, ")", j + 2)
         IN  IF m > j + 2 /\ j > 0
             THEN SubSeq(s, j + 2, m - 1)
             ELSE MarkdownImageUrl(s, i + 1)

extractUrlFromMarkdown(text) ==
    LET mdImg == MarkdownImageUrl(text, 1)
        n == Len(text)
    IN  IF mdImg # <<>> THEN Trim(mdImg)
        ELSE IF n >= 2 /\ text[1] = "<fence>" /\ text[n] = "<fence>"
        THEN Trim(SubSeq(text, 2, n - 1))
        ELSE IF n >= 2 /\ text[1] = "<tick>" /\ text[n] = "<tick>"
                /\ ~Includes(SubSeq(text, 2, n - 1), "<tick>")
                /\ ~Includes(SubSeq(text, 2, n - 1), "<fence>")
        THEN Trim(SubSeq(text, 2, n - 1))
        ELSE Trim(text)

\* A variant of isValidAssetUrl that accepts every text that is not blank.
isValidAssetUrl_AnyText(url) == Trim(url) # <<>>

isValidAssetUrl(url) ==
    LET trimmed == Trim(url)
    IN  \/ StartsWith(trimmed, "http://")
        \/ StartsWith(trimmed, "https://")
        \/ Includes(trimmed, "codahosted.io/")

ImageExtensions == {".jpg", ".jpeg", ".png", ".gif", ".webp", ".svg", ".bmp",
                    ".tiff", ".tif", ".ico", ".apng", ".avif"}

isLikelyImageUrl(url) ==
    LET trimmed == Trim(url)
        n == Len(trimmed)
        \* the place of the extension: the end, or right before the query
        ends == {n} \cup {i \in 1..n : i + 1 <= n /\ trimmed[i + 1] = "?"}
    IN  /\ n >= 2
        /\ LowerTok(trimmed[1]) \in {"http://", "https://"}
        /\ \/ \E e \in ends :
                /\ e >= 3
                /\ LowerTok(trimmed[e]) \in ImageExtensions
                /\ \A i \in 2..e : ~IsSpace(trimmed[i])
           \/ trimmed[1] \in {"http://", "https://"} /\ trimmed[2] = "codahosted.io/"

\* A variant of extractMeaningfulText that looks at name before the other
\* properties.
extractMeaningfulText_NameFirst(item) ==
    IF IsString(item) THEN item.s
    ELSE IF IsPlainObject(item)
    THEN IF HasStringProp(item, "url") /\ "@type" \in DOMAIN item.p
            /\ item.p["@type"] = Str(<<"WebPage">>)
         THEN item.p["url"].s
         ELSE IF HasStringProp(item, "name") /\ item.p["name"].s # <<>>
         THEN item.p["name"].s
         ELSE IF HasStringProp(item, "rawValue") /\ item.p["rawValue"].s # <<>>
         THEN item.p["rawValue"].s
         ELSE IF HasStringProp(item, "value") /\ item.p["value"].s # <<>>
         THEN item.p["value"].s
         ELSE IF HasStringProp(item, "displayValue") /\ item.p["displayValue"].s # <<>>
         THEN item.p["displayValue"].s
         ELSE IF HasStringProp(item, "content") /\ item.p["content"].s # <<>>
         THEN item.p["content"].s
         ELSE ToStringJS(item)
    ELSE ToStringJS(item)

extractMeaningfulText(item) ==
    IF IsString(item) THEN item.s
    ELSE IF IsPlainObject(item)
    THEN IF HasStringProp(item, "url") /\ "@type" \in DOMAIN item.p
            /\ item.p["@type"] = Str(<<"WebPage">>)
         THEN item.p["url"].s
         ELSE IF HasStringProp(item, "rawValue") /\ item.p["rawValue"].s # <<>>
         THEN item.p["rawValue"].s
         ELSE IF HasStringProp(item, "value") /\ item.p["value"].s # <<>>
         THEN item.p["value"].s
         ELSE IF HasStringProp(item, "displayValue") /\ item.p["displayValue"].s # <<>>
         THEN item.p["displayValue"].s
         ELSE IF HasStringProp(item, "name") /\ item.p["name"].s # <<>>
         THEN item.p["name"].s
         ELSE IF HasStringProp(item, "content") /\ item.p["content"].s # <<>>
         THEN item.p["content"].s
         ELSE ToStringJS(item)
    ELSE ToStringJS(item)

----------------------------------------------------------------------------
(* Numbers: n/d in lowest terms, d > 0 *)

RECURSIVE Gcd(_, _)
Gcd(a, b) == IF b = 0 THEN a ELSE Gcd(b, a % b)

Abs(n) == IF n < 0 THEN -n ELSE n

NumQ(n, d) ==
    LET g == Gcd(Abs(n), d)
    IN  [k |-> "number", n |-> n \div g, d |-> d \div g]

NaN == [k |-> "number", n |-> 0, d |-> 0]
IsNaN(v) == v.d = 0

\* The digit strings of the model, with their value and their length.
DigitTokens == {"0", "1", "5", "15", "50", "234", "1234"}
DigitsValue(t) ==
    CASE t = "0" -> 0 [] t = "1" -> 1 [] t = "5" -> 5 [] t = "15" -> 15 [] t = "50" -> 50
      [] t = "234" -> 234 [] t = "1234" -> 1234 [] OTHER -> 0
DigitsScale(t) ==
    CASE t \in {"0", "1", "5"} -> 10 [] t \in {"15", "50"} -> 100 [] t = "234" -> 1000
      [] OTHER -> 10000

\* The value of digit strings written one after the other.
RECURSIVE DigitsJoined(_, _)
DigitsJoined(acc, tokens) ==
    IF tokens = <<>> THEN acc
    ELSE DigitsJoined(acc * DigitsScale(Head(tokens)) + DigitsValue(Head(tokens)),
                      Tail(tokens))

\* Number(text) of an already trimmed text: digits, or digits, a point and
\* digits.
NumberJS(text) ==
    LET AllDigits(t) == t # <<>> /\ \A i \in 1..Len(t) : t[i] \in DigitTokens
        n == Len(text)
    IN  IF text = <<>> THEN NumQ(0, 1)
        ELSE IF AllDigits(text) THEN NumQ(DigitsJoined(0, text), 1)
        ELSE IF n >= 3 /\ text[n - 1] = "." /\ text[n] \in DigitTokens
                /\ AllDigits(SubSeq(text, 1, n - 2))
        THEN NumQ(DigitsJoined(0, SubSeq(text, 1, n - 2)) * DigitsScale(text[n])
                      + DigitsValue(text[n]),
                  DigitsScale(text[n]))
        ELSE NaN

\* A variant of RemoveTokens that removes nothing.
RemoveTokens_Nothing(s, drop) == s

RECURSIVE RemoveTokens(_, _)
RemoveTokens(s, drop) ==
    IF s = <<>> THEN <<>>
    ELSE IF Head(s) \in drop THEN RemoveTokens(Tail(s), drop)
    ELSE <<Head(s)>> \o RemoveTokens(Tail(s), drop)

CurrencySymbols == {"$", "£", "€", "¥"}

----------------------------------------------------------------------------
(* Dates: an instant is a number of hours after 2024-09-30T00:00Z *)

DayTokens == {"1969-12-31", "1970-01-01", "1970-01-02", "1999-12-31",
              "2024-09-29", "2024-09-30", "2024-10-01"}
DayIndex(t) ==
    CASE t = "1969-12-31" -> 0 - 19997
      [] t = "1970-01-01" -> 0 - 19996
      [] t = "1970-01-02" -> 0 - 19995
      [] t = "1999-12-31" -> 0 - 9040
      [] t = "2024-09-29" -> 0 - 1
      [] t = "2024-09-30" -> 0
      [] OTHER -> 1
DayToken(d) == CHOOSE t \in DayTokens : DayIndex(t) = d

HourTokens == <<"00", "01", "02", "03", "04", "05", "06", "07", "08", "09", "10", "11",
                "12", "13", "14", "15", "16", "17", "18", "19", "20", "21", "22", "23">>
HourIndex(t) == CHOOSE h \in 0..23 : HourTokens[h + 1] = t

ZoneTokens == {"Z", "-04:00", "+02:00"}
ZoneOffset(t) == CASE t = "-04:00" -> 0 - 4 [] t = "+02:00" -> 2 [] OTHER -> 0

InvalidDate == 0 - 1000000

\* new Date(text).getTime(), InvalidDate standing for NaN.
ParseDate(text) ==
    IF Len(text) = 1 /\ text[1] \in DayTokens
    THEN DayIndex(text[1]) * 24
    ELSE IF Len(text) = 5 /\ text[1] \in DayTokens /\ text[2] = "T"
            /\ text[3] \in Range(HourTokens) /\ text[4] \in {":00:00", ":00:00.000"}
            /\ text[5] \in ZoneTokens
    THEN DayIndex(text[1]) * 24 + HourIndex(text[3]) - ZoneOffset(text[5])
    ELSE InvalidDate

\* toISOString()
ToISOString(instant) ==
    <<DayToken(instant \div 24), "T", HourTokens[(instant % 24) + 1], ":00:00.000", "Z">>

\* The getFullYear() ... getMilliseconds() fields, written out with a Z.
LocalAsUtc(instant, tz) == ToISOString(instant + tz)

----------------------------------------------------------------------------
(* transformCodaValue *)

Entry(type, value) == [type |-> type, value |-> value]

\* A variant of IsEmptyValue that compares with '' without trimming.
IsEmptyValue_NoTrim(value) ==
    \/ value.k \in {"null", "undefined"}
    \/ IsString(value) /\ value.s = <<>>

\* value === null || value === undefined || (string && value.trim() === '')
IsEmptyValue(value) ==
    \/ value.k \in {"null", "undefined"}
    \/ IsString(value) /\ Trim(value.s) = <<>>

\* A variant of EmptyValueEntry that gives an empty date the default
\* 1999-12-31, as an earlier version of the plug-in did.
EmptyValueEntry_Date1999(field) ==
    CASE field.type = "number" -> Entry("number", Num(0))
      [] field.type = "boolean" -> Entry("boolean", Bool(FALSE))
      [] field.type = "date" ->
            Entry("date", Str(<<"1999-12-31", "T", "00", ":00:00.000", "Z">>))
      [] field.type = "multiCollectionReference" ->
            Entry("multiCollectionReference", Arr(<<>>))
      [] field.type \in {"image", "file", "formattedText", "link",
                         "collectionReference", "enum"} -> Entry(field.type, Str(<<>>))
      [] OTHER -> Entry("string", Str(<<>>))

\* 1. null/undefined/empty, by the Framer field type
EmptyValueEntry(field) ==
    CASE field.type = "string" -> Entry("string", Str(<<>>))
      [] field.type = "number" -> Entry("number", Num(0))
      [] field.type = "boolean" -> Entry("boolean", Bool(FALSE))
      [] field.type = "date" -> Null
      [] field.type = "image" -> Entry("image", Str(<<>>))
      [] field.type = "file" -> Entry("file", Str(<<>>))
      [] field.type = "formattedText" -> Entry("formattedText", Str(<<>>))
      [] field.type = "link" -> Entry("link", Str(<<>>))
      [] field.type = "collectionReference" -> Entry("collectionReference", Str(<<>>))
      [] field.type = "multiCollectionReference" ->
            Entry("multiCollectionReference", Arr(<<>>))
      [] field.type = "enum" -> Entry("enum", Str(<<>>))
      [] OTHER -> Entry("string", Str(<<>>))

NumberEntry(value) ==
    LET fromString ==
            LET cleanValue == Trim(RemoveTokens(value.s, CurrencySymbols \cup {","}))
                n == Len(cleanValue)
            IN  IF n > 0 /\ cleanValue[n] = "%"
                THEN LET parsed == NumberJS(Trim(SubSeq(cleanValue, 1, n - 1)))
                     IN  IF ~IsNaN(parsed) THEN NumQ(parsed.n, parsed.d * 100)
                         ELSE Num(0)
                ELSE LET parsed == NumberJS(cleanValue)
                     IN  IF ~IsNaN(parsed) THEN parsed ELSE Num(0)
        fromObject ==
            IF "@type" \in DOMAIN value.p /\ value.p["@type"] = Str(<<"MonetaryAmount">>)
               /\ "amount" \in DOMAIN value.p /\ IsNumber(value.p["amount"])
            THEN value.p["amount"]
            ELSE IF "value" \in DOMAIN value.p /\ IsNumber(value.p["value"])
            THEN value.p["value"]
            ELSE IF "amount" \in DOMAIN value.p /\ IsNumber(value.p["amount"])
            THEN value.p["amount"]
            ELSE Num(0)
    IN  Entry("number",
              CASE IsNumber(value) -> value
                [] IsString(value) -> fromString
                [] IsPlainObject(value) -> fromObject
                [] OTHER -> Num(0))

\* Boolean(value)
Truthy(value) ==
    CASE value.k \in {"null", "undefined"} -> FALSE
      [] IsString(value) -> value.s # <<>>
      [] IsNumber(value) -> value.n # 0
      [] value.k = "boolean" -> value.b
      [] OTHER -> TRUE

DateEntry(value, codaColumnType, tz) ==
    LET direct == IF IsString(value) \/ IsNumber(value) THEN ToStringJS(value) ELSE <<>>
        dateValue ==
            IF IsPlainObject(value) /\ "value" \in DOMAIN value.p
            THEN LET v == value.p["value"]
                 IN  IF IsString(v) \/ IsNumber(v) THEN ToStringJS(v) ELSE <<>>
            ELSE direct
        dateObj == ParseDate(dateValue)
    IN  IF dateObj = InvalidDate THEN Null
        ELSE IF codaColumnType = "date"
        THEN Entry("date", Str(<<DayToken(dateObj \div 24)>>))
        ELSE IF codaColumnType = "time"
        THEN Entry("date", Str(<<"1970-01-01">> \o Tail(ToISOString(dateObj))))
        ELSE IF codaColumnType = "datetime"
        THEN Entry("date", Str(LocalAsUtc(dateObj, tz)))
        ELSE Entry("date", Str(ToISOString(dateObj)))

\* marked.parse followed by DOMPurify.sanitize, on plain text: a paragraph;
\* text that is a paragraph already passes through.
markdownToSanitizedHtml(md) ==
    IF md = <<>> THEN <<>>
    ELSE IF Head(md) = "<p>" THEN md
    ELSE <<"<p>">> \o md \o <<"</p>">>

FormattedTextEntry(value, codaColumnType) ==
    IF codaColumnType \in {"canvas", "richtext"}
    THEN LET md ==
                 IF IsPlainObject(value)
                 THEN IF HasStringProp(value, "content") THEN value.p["content"].s
                      ELSE IF HasStringProp(value, "value") THEN value.p["value"].s
                      ELSE IF DOMAIN value.p = {} THEN <<>>
                      ELSE <<"{json}">>
                 ELSE IF IsArray(value) THEN <<"[json]">>
                 ELSE IF IsString(value) THEN value.s
                 ELSE <<>>
         IN  Entry("formattedText", Str(markdownToSanitizedHtml(md)))
    ELSE Entry("formattedText", Str(ToStringJS(value)))

Hour12Tokens == <<"12", "1", "2", "3", "4", "5", "6", "7", "8", "9", "10", "11">>

\* The hour of a clock text ("HH:00" or "HH:00:00") or of a timestamp, as the
\* 'time' branch reads it; -1 when neither parses.
TimeHours(value, tz) ==
    IF ~IsString(value) THEN 0 - 1
    ELSE IF Len(value.s) = 2 /\ value.s[1] \in Range(HourTokens)
            /\ value.s[2] \in {":00", ":00:00"}
    THEN HourIndex(value.s[1])
    ELSE IF ParseDate(value.s) # InvalidDate
    THEN (ParseDate(value.s) + tz) % 24
    ELSE 0 - 1

FormatTime(hours, use12HourTime) ==
    IF use12HourTime
    THEN <<Hour12Tokens[(hours % 12) + 1], ":00", " ",
           IF hours >= 12 THEN "PM" ELSE "AM">>
    ELSE <<HourTokens[hours + 1], ":00">>

RECURSIVE MapText(_)
MapText(arr) ==
    IF arr = <<>> THEN <<>>
    ELSE <<extractMeaningfulText(Head(arr))>> \o MapText(Tail(arr))

\* texts.filter(Boolean).join(', ')
RECURSIVE JoinTexts(_)
JoinTexts(texts) ==
    IF texts = <<>> THEN <<>>
    ELSE IF Head(texts) = <<>> THEN JoinTexts(Tail(texts))
    ELSE LET rest == JoinTexts(Tail(texts))
         IN  IF rest = <<>> THEN Head(texts) ELSE Head(texts) \o <<",", " ">> \o rest

StringEntry(value, codaColumnType, use12HourTime, tz) ==
    IF codaColumnType = "time" /\ TimeHours(value, tz) >= 0
    THEN Entry("string", Str(FormatTime(TimeHours(value, tz), use12HourTime)))
    ELSE LET textValue ==
                 IF IsArray(value) THEN JoinTexts(MapText(value.e))
                 ELSE IF IsPlainObject(value) /\ "rawValue" \in DOMAIN value.p
                         /\ IsArray(value.p["rawValue"])
                 THEN JoinTexts(MapText(value.p["rawValue"].e))
                 ELSE extractMeaningfulText(value)
         IN  Entry("string", Str(stripMarkdown(textValue)))

IsUsableImageUrl(url) == isValidAssetUrl(url) \/ isLikelyImageUrl(url)

\* [url, contentUrl, thumbnailUrl] of an ImageObject, the strings among them.
ImageObjectUrls(obj) ==
    LET one(name) == IF HasStringProp(obj, name) THEN <<obj.p[name].s>> ELSE <<>>
    IN  one("url") \o one("contentUrl") \o one("thumbnailUrl")

\* The first url of the list that passes validation, or <<>>.
RECURSIVE FirstUsableUrl(_)
FirstUsableUrl(urls) ==
    IF urls = <<>> THEN <<>>
    ELSE IF IsUsableImageUrl(Head(urls)) THEN Head(urls)
    ELSE FirstUsableUrl(Tail(urls))

IsImageObject(v) ==
    IsPlainObject(v) /\ "@type" \in DOMAIN v.p /\ v.p["@type"] = Str(<<"ImageObject">>)

\* for (const item of value) { if (item['@type'] === 'ImageObject') ... }: the
\* loop reads a property of null or undefined, which throws a TypeError,
\* unless it broke out at an earlier item.
RECURSIVE ImageArrayThrows(_)
ImageArrayThrows(items) ==
    IF items = <<>> THEN FALSE
    ELSE IF Head(items).k \in {"null", "undefined"} THEN TRUE
    ELSE IF IsImageObject(Head(items)) /\ FirstUsableUrl(ImageObjectUrls(Head(items))) # <<>>
    THEN FALSE
    ELSE ImageArrayThrows(Tail(items))

\* The url the loop found, or <<>>.
RECURSIVE ImageUrlOfArray(_)
ImageUrlOfArray(items) ==
    IF items = <<>> THEN <<>>
    ELSE IF IsImageObject(Head(items)) /\ FirstUsableUrl(ImageObjectUrls(Head(items))) # <<>>
    THEN FirstUsableUrl(ImageObjectUrls(Head(items)))
    ELSE ImageUrlOfArray(Tail(items))

\* The chain of 'url' in value ... 'thumbnailUrl' in value, which overrides
\* what the ImageObject branch found; then the linkedRow fallback.
ImageUrlOfObject(value) ==
    LET fromImageObject ==
            IF IsImageObject(value) THEN FirstUsableUrl(ImageObjectUrls(value)) ELSE <<>>
        chained ==
            IF HasStringProp(value, "url") THEN value.p["url"].s
            ELSE IF HasStringProp(value, "link") THEN value.p["link"].s
            ELSE IF HasStringProp(value, "value")
            THEN extractUrlFromMarkdown(value.p["value"].s)
            ELSE IF HasStringProp(value, "rawValue")
            THEN extractUrlFromMarkdown(value.p["rawValue"].s)
            ELSE IF HasStringProp(value, "imageUrl") THEN value.p["imageUrl"].s
            ELSE IF HasStringProp(value, "thumbnailUrl") THEN value.p["thumbnailUrl"].s
            ELSE fromImageObject
        linked ==
            IF "linkedRow" \in DOMAIN value.p /\ IsPlainObject(value.p["linkedRow"])
            THEN LET linkedRow == value.p["linkedRow"]
                 IN  IF HasStringProp(linkedRow, "url") THEN linkedRow.p["url"].s
                     ELSE IF HasStringProp(linkedRow, "imageUrl")
                     THEN linkedRow.p["imageUrl"].s
                     ELSE <<>>
            ELSE <<>>
    IN  IF chained # <<>> THEN chained ELSE linked

ImageEntry(value) ==
    LET imageUrl ==
            IF IsString(value) THEN extractUrlFromMarkdown(value.s)
            ELSE IF IsArray(value) THEN ImageUrlOfArray(value.e)
            ELSE IF IsPlainObject(value) THEN ImageUrlOfObject(value)
            ELSE <<>>
    IN  IF IsArray(value) /\ ImageArrayThrows(value.e) THEN Thrown
        ELSE IF imageUrl # <<>> /\ IsUsableImageUrl(imageUrl)
        THEN Entry("image", Str(Trim(imageUrl)))
        ELSE Null

FileEntry(value) ==
    LET fileUrl ==
            IF IsString(value) THEN extractUrlFromMarkdown(value.s)
            ELSE IF HasStringProp(value, "url") THEN value.p["url"].s
            ELSE IF HasStringProp(value, "link") THEN value.p["link"].s
            ELSE <<>>
    IN  IF fileUrl # <<>> /\ isValidAssetUrl(fileUrl)
        THEN Entry("file", Str(Trim(fileUrl)))
        ELSE Null

LinkEntry(value) ==
    Entry("link", Str(IF HasStringProp(value, "url") THEN value.p["url"].s
                      ELSE IF IsString(value) THEN value.s
                      ELSE <<>>))

\* processItem of the reference branches: the id text, or <<>> for null.
ReferenceId(item, withRowId) ==
    IF IsString(item) THEN item.s
    ELSE IF withRowId /\ HasStringProp(item, "rowId") THEN item.p["rowId"].s
    ELSE IF HasStringProp(item, "id") THEN item.p["id"].s
    ELSE IF HasStringProp(item, "@id") THEN item.p["@id"].s
    ELSE <<>>

\* The ids of the items that have one, in order.
RECURSIVE ReferenceIds(_, _)
ReferenceIds(items, withRowId) ==
    IF items = <<>> THEN <<>>
    ELSE IF ReferenceId(Head(items), withRowId) = <<>>
    THEN ReferenceIds(Tail(items), withRowId)
    ELSE <<Str(ReferenceId(Head(items), withRowId))>>
         \o ReferenceIds(Tail(items), withRowId)

CollectionReferenceEntry(value) ==
    LET ids == IF IsArray(value) THEN ReferenceIds(value.e, FALSE)
               ELSE ReferenceIds(<<value>>, FALSE)
    IN  Entry("collectionReference", IF ids = <<>> THEN Str(<<>>) ELSE Head(ids))

MultiCollectionReferenceEntry(value) ==
    Entry("multiCollectionReference",
          Arr(IF IsArray(value) THEN ReferenceIds(value.e, TRUE)
              ELSE ReferenceIds(<<value>>, TRUE)))

\* enumValue.replace(/^<fence>|<fence>$/g, '').trim()
StripFences(s) ==
    LET a == IF s # <<>> /\ Head(s) = "<fence>" THEN Tail(s) ELSE s
        b == IF a # <<>> /\ a[Len(a)] = "<fence>" THEN SubSeq(a, 1, Len(a) - 1) ELSE a
    IN  Trim(b)

FieldCases(field) == IF "cases" \in DOMAIN field THEN field.cases ELSE <<>>

EnumEntry(value, field) ==
    LET raw ==
            IF IsPlainObject(value) /\ "name" \in DOMAIN value.p
            THEN IF IsString(value.p["name"]) THEN value.p["name"].s
                 ELSE IF HasStringProp(value, "id") THEN value.p["id"].s
                 ELSE <<>>
            ELSE IF IsString(value) THEN value.s
            ELSE IF IsArray(value) /\ value.e # <<>>
            THEN LET firstItem == value.e[1]
                 IN  IF IsPlainObject(firstItem) /\ "name" \in DOMAIN firstItem.p
                     THEN ToStringJS(firstItem.p["name"])
                     ELSE IF IsString(firstItem) THEN firstItem.s
                     ELSE <<>>
            ELSE <<>>
        enumValue == StripFences(raw)
        cases == FieldCases(field)
        byId == {i \in 1..Len(cases) : cases[i].id = enumValue}
        byName == {i \in 1..Len(cases) : cases[i].name = enumValue}
        least(S) == CHOOSE i \in S : \A j \in S : i <= j
    IN  IF enumValue = <<>> THEN Null
        ELSE IF byId # {} THEN Entry("enum", Str(cases[least(byId)].id))
        ELSE IF byName # {} THEN Entry("enum", Str(cases[least(byName)].id))
        ELSE Entry("enum", Str(enumValue))

\* transformCodaValue(value, field, codaColumnType, use12HourTime); the local
\* time zone the Date getters read is the argument tz.
transformCodaValueIn(value, field, codaColumnType, use12HourTime, tz) ==
    IF IsEmptyValue(value) THEN EmptyValueEntry(field)
    ELSE CASE field.type = "number" -> NumberEntry(value)
           [] field.type = "boolean" -> Entry("boolean", Bool(Truthy(value)))
           [] field.type = "date" -> DateEntry(value, codaColumnType, tz)
           [] field.type = "formattedText" -> FormattedTextEntry(value, codaColumnType)
           [] field.type = "string" ->
                StringEntry(value, codaColumnType, use12HourTime, tz)
           [] field.type = "image" -> ImageEntry(value)
           [] field.type = "file" -> FileEntry(value)
           [] field.type = "link" -> LinkEntry(value)
           [] field.type = "collectionReference" -> CollectionReferenceEntry(value)
           [] field.type = "multiCollectionReference" ->
                MultiCollectionReferenceEntry(value)
           [] field.type = "enum" -> EnumEntry(value, field)
           [] OTHER -> Entry("string", Str(ToStringJS(value)))

transformCodaValue(value, field, codaColumnType, use12HourTime) ==
    transformCodaValueIn(value, field, codaColumnType, use12HourTime, machineTz)

----------------------------------------------------------------------------
(* mapCodaTypeToFramerType *)

Field(id, name, type) == [id |-> id, name |-> name, type |-> type]

\* choice.id || choice.name || 'choice-' + idx  (idx counts from 0)
ChoiceCase(choice, idx) ==
    [id |-> IF "id" \in DOMAIN choice /\ choice.id # <<>> THEN choice.id
            ELSE IF choice.name # <<>> THEN choice.name
            ELSE <<"choice-", ToString(idx)>>,
     name |-> choice.name]

\* Array.isArray(column.format.options): the declared interface makes options
\* an object holding a choices list; only an options value that is itself
\* the list passes the test.
OptionsIsArray(column) ==
    "options" \in DOMAIN column.format /\ column.format.options.isArray

\* A variant of NameRuleApplies that looks at the display name only.
NameRuleApplies_NameOnly(column) ==
    LET name == ToLowerCase(column.name)
    IN  Includes(name, "image") \/ Includes(name, "graphic")

NameRuleApplies(column) ==
    LET name == ToLowerCase(column.name)
        id == ToLowerCase(column.id)
    IN  \/ Includes(name, "image") \/ Includes(name, "graphic")
        \/ Includes(id, "image") \/ Includes(id, "graphic")

\* A variant of IsArrayColumn that takes the presence of the isArray key for
\* its value.
IsArrayColumn_KeyPresent(column) == "isArray" \in DOMAIN column.format

IsArrayColumn(column) == "isArray" \in DOMAIN column.format /\ column.format.isArray

\* The result is Null for a column that is skipped.
mapCodaTypeToFramerType(column) ==
    LET baseType == LowerTok(column.format.type)
        plain(type) == Field(column.id, column.name, type)
    IN  IF baseType = "button" THEN Null
        ELSE IF baseType = "image" \/ NameRuleApplies(column) THEN plain("image")
        ELSE IF baseType \in {"select", "scale"} /\ OptionsIsArray(column)
        THEN [id |-> column.id, name |-> column.name, type |-> "enum",
              cases |-> [i \in 1..Len(column.format.options.choices) |->
                            ChoiceCase(column.format.options.choices[i], i - 1)]]
        ELSE CASE baseType \in {"text", "email", "phone"} -> plain("string")
               [] baseType \in {"number", "currency", "percent", "duration"} ->
                    plain("number")
               [] baseType = "checkbox" -> plain("boolean")
               [] baseType \in {"date", "datetime"} -> plain("date")
               [] baseType = "time" -> plain("string")
               [] baseType = "file" ->
                    [id |-> column.id, name |-> column.name, type |-> "file",
                     allowedFileTypes |-> <<"*">>]
               [] baseType \in {"canvas", "richtext"} -> plain("formattedText")
               [] baseType \in {"person", "lookup", "reference"} ->
                    IF baseType = "lookup" /\ ~IsArrayColumn(column)
                    THEN [id |-> column.id, name |-> column.name, type |-> "enum",
                          cases |-> <<>>]
                    ELSE plain("string")
               [] baseType \in {"url", "link"} -> plain("link")
               [] OTHER -> plain("string")

----------------------------------------------------------------------------
(* getCodaDataSource: from the upstream table to the data source *)

IdKey == <<"_id">>

PLUGIN_KEYS == [DATA_SOURCE_ID |-> "dataSourceId",
                SLUG_FIELD_ID |-> "slugFieldId",
                CODA_TABLE_ID |-> "codaTableId"]

\* columnsData.items.map(col => ({id, name: String(col.name || col.id), format}))
LoadedColumn(col) ==
    [id |-> col.id,
     name |-> IF col.name # <<>> THEN col.name ELSE col.id,
     format |-> col.format]

LoadedColumns(codaTable) == [i \in 1..Len(codaTable.columns) |-> LoadedColumn(codaTable.columns[i])]

RECURSIVE DropNulls(_)
DropNulls(s) ==
    IF s = <<>> THEN <<>>
    ELSE IF Head(s) = Null THEN DropNulls(Tail(s))
    ELSE <<Head(s)>> \o DropNulls(Tail(s))

\* A variant of SourceFields that keeps a column the mapper skips, as a
\* string field.
SourceFields_SkippedAsString(columns) ==
    [i \in 1..Len(columns) |->
        IF mapCodaTypeToFramerType(columns[i]) = Null
        THEN Field(columns[i].id, columns[i].name, "string")
        ELSE mapCodaTypeToFramerType(columns[i])]

\* columns.map(mapCodaTypeToFramerType).filter(field => field !== null)
SourceFields(columns) ==
    DropNulls([i \in 1..Len(columns) |-> mapCodaTypeToFramerType(columns[i])])

\* fieldMap.get(key) / codaColumnTypeMap.get(key): a Map keeps the last
\* entry written under a key.
Last(S) == CHOOSE i \in S : \A j \in S : j <= i
FieldById(fields, id) ==
    LET at == {i \in 1..Len(fields) : fields[i].id = id}
    IN  IF at = {} THEN Null ELSE fields[Last(at)]
CodaTypeOf(columns, id) ==
    LET at == {i \in 1..Len(columns) : columns[i].id = id}
    IN  IF at = {} THEN "text" ELSE LowerTok(columns[Last(at)].format.type)

\* The texts extractLookupValues takes from one element of an array, or from
\* a value that is not an array: a string itself, the name of an object, or
\* else its value.
LookupText(v) ==
    IF IsString(v) THEN <<v.s>>
    ELSE IF HasStringProp(v, "name") THEN <<v.p["name"].s>>
    ELSE IF HasStringProp(v, "value") THEN <<v.p["value"].s>>
    ELSE <<>>

RECURSIVE LookupTexts(_)
LookupTexts(items) ==
    IF items = <<>> THEN <<>>
    ELSE LookupText(Head(items)) \o LookupTexts(Tail(items))

\* extractLookupValues(v)
extractLookupValues(v) == IF IsArray(v) THEN LookupTexts(v.e) ELSE LookupText(v)

\* The values of one lookup field in the rows, in row order, each with the
\* fences stripped and trimmed: what is added to the field's Set.  A row
\* whose value is missing or falsy adds nothing.
RECURSIVE LookupValues(_, _)
LookupValues(rows, fieldId) ==
    IF rows = <<>> THEN <<>>
    ELSE LET value == IF fieldId \in DOMAIN Head(rows).values
                      THEN Head(rows).values[fieldId] ELSE Undefined
             texts == IF Truthy(value) THEN extractLookupValues(value) ELSE <<>>
         IN  [i \in 1..Len(texts) |-> StripFences(texts[i])]
                \o LookupValues(Tail(rows), fieldId)

\* Array.from(set): the elements in the order they were first added.
RECURSIVE InsertionOrder(_, _)
InsertionOrder(values, seen) ==
    IF values = <<>> THEN <<>>
    ELSE IF Head(values) \in seen THEN InsertionOrder(Tail(values), seen)
    ELSE <<Head(values)>> \o InsertionOrder(Tail(values), seen \cup {Head(values)})

\* A variant of LookupCase that numbers the cases.
LookupCase_ByIndex(value, idx) == [id |-> <<"case-", ToString(idx)>>, name |-> value]

\* uniqueValues.map(value => ({ id: value, name: value }))
LookupCase(value, idx) == [id |-> value, name |-> value]

\* The cases of one lookup field: the unique values that are not empty.
LookupCases(rows, fieldId) ==
    LET NotEmpty(v) == v # <<>>
        uniqueValues == SelectSeq(InsertionOrder(LookupValues(rows, fieldId), {}), NotEmpty)
    IN  [i \in 1..Len(uniqueValues) |-> LookupCase(uniqueValues[i], i - 1)]

\* The fields with the cases of the lookupFields filled in: the enum fields
\* whose column is of type lookup.
WithLookupCases(fields, columns, rows) ==
    [i \in 1..Len(fields) |->
        IF /\ fields[i].type = "enum"
           /\ \E c \in 1..Len(columns) :
                 columns[c].id = fields[i].id /\ LowerTok(columns[c].format.type) = "lookup"
           /\ "cases" \in DOMAIN fields[i]
        THEN [fields[i] EXCEPT !.cases = LookupCases(rows, fields[i].id)]
        ELSE fields[i]]

\* 'fields' when the rows are transformed
LoadedFields(columns, rows) == WithLookupCases(SourceFields(columns), columns, rows)

\* A transformation of one of the row's values throws: nothing catches it in
\* the rows.map callback.
RowThrows(row, fields, columns, use12HourTime) ==
    \E key \in DOMAIN row.values :
        /\ FieldById(fields, key) # Null
        /\ transformCodaValue(row.values[key], FieldById(fields, key),
                              CodaTypeOf(columns, key), use12HourTime) = Thrown

\* if (transformedEntry !== null) fieldData[key] = transformedEntry
KeptEntries(entries) ==
    [key \in {id \in DOMAIN entries : entries[id] # Null} |-> entries[key]]

\* { _id: {type: "string", value: row.id}, ...the entries kept }
WithRowId(entries, rowId) ==
    [key \in DOMAIN entries \cup {IdKey} |->
        IF key \in DOMAIN entries THEN entries[key] ELSE Entry("string", Str(rowId))]

\* The fieldData of one row.
RowFieldData(row, fields, columns, use12HourTime) ==
    WithRowId(KeptEntries([key \in {id \in DOMAIN row.values : FieldById(fields, id) # Null} |->
                              transformCodaValue(row.values[key], FieldById(fields, key),
                                                 CodaTypeOf(columns, key), use12HourTime)]),
              row.id)

\* showImageUrlWarning, tableId and codaTableId around the fields and items
DataSourceResult(tableId, actualCodaTableId, columns, fields, items) ==
    LET hasImageOrFileFields == \E i \in 1..Len(fields) : fields[i].type \in {"image", "file"}
        hasValidImageOrFileUrls ==
            \E i \in 1..Len(items) : \E j \in 1..Len(fields) :
                /\ fields[j].type \in {"image", "file"}
                /\ fields[j].id \in DOMAIN items[i]
                /\ IsString(items[i][fields[j].id].value)
                /\ Trim(items[i][fields[j].id].value.s) # <<>>
    IN  [dataSource |-> [id |-> tableId, fields |-> fields, items |-> items],
         showImageUrlWarning |-> hasImageOrFileFields /\ ~hasValidImageOrFileUrls,
         codaColumns |-> columns,
         codaTableId |-> actualCodaTableId]

LoadedItems(rows, fields, columns, use12HourTime) ==
    [i \in 1..Len(rows) |-> RowFieldData(rows[i], fields, columns, use12HourTime)]

\* What the returned promise settles to: the result, or Thrown, a throw in
\* the rows.map callback rejecting the whole call.
getCodaDataSourceResult(codaTable, tableId, use12HourTime) ==
    IF \E i \in 1..Len(codaTable.rows) :
          RowThrows(codaTable.rows[i], LoadedFields(LoadedColumns(codaTable), codaTable.rows),
                    LoadedColumns(codaTable), use12HourTime)
    THEN Thrown
    ELSE DataSourceResult(tableId, codaTable.id, LoadedColumns(codaTable),
                          LoadedFields(LoadedColumns(codaTable), codaTable.rows),
                          LoadedItems(codaTable.rows,
                                      LoadedFields(LoadedColumns(codaTable), codaTable.rows),
                                      LoadedColumns(codaTable), use12HourTime))

----------------------------------------------------------------------------
(* syncCollection: the pure part, from the data source to the writes *)

\* String(item._id.value), or <<>> for undefined
RowIdOf(item) ==
    IF IdKey \in DOMAIN item THEN ToStringJS(item[IdKey].value) ELSE <<>>

\* String(item[slugField.id].value), or <<>> for undefined
SlugValueOf(item, slugField) ==
    IF slugField.id \in DOMAIN item THEN ToStringJS(item[slugField.id].value) ELSE <<>>

\* A variant of RowIsSynced without the test of the slug value.
RowIsSynced_IgnoresSlug(item, slugField) == RowIdOf(item) # <<>>

\* The two 'continue' tests of the loop.
RowIsSynced(item, slugField) ==
    RowIdOf(item) # <<>> /\ SlugValueOf(item, slugField) # <<>>

SyncedFieldData(item, fields, columns, use12HourTime) ==
    KeptEntries([key \in {id \in DOMAIN item : id # IdKey /\ FieldById(fields, id) # Null} |->
                    transformCodaValue(item[key].value, FieldById(fields, key),
                                       CodaTypeOf(columns, key), use12HourTime)])

\* A transformation inside the loop throws; the loop has no try/catch, so
\* syncCollection rejects before its first write.
SyncThrows(sourceItems, fields, columns, slugField, use12HourTime) ==
    \E i \in 1..Len(sourceItems) :
        /\ RowIsSynced(sourceItems[i], slugField)
        /\ \E key \in DOMAIN sourceItems[i] :
              /\ key # IdKey
              /\ FieldById(fields, key) # Null
              /\ transformCodaValue(sourceItems[i][key].value, FieldById(fields, key),
                                    CodaTypeOf(columns, key), use12HourTime) = Thrown

\* The items pushed by the loop, in order.
RECURSIVE SyncItems(_, _, _, _, _)
SyncItems(sourceItems, fields, columns, slugField, use12HourTime) ==
    IF sourceItems = <<>> THEN <<>>
    ELSE LET item == Head(sourceItems)
             rest == SyncItems(Tail(sourceItems), fields, columns, slugField,
                               use12HourTime)
         IN  IF RowIsSynced(item, slugField)
             THEN <<[id |-> RowIdOf(item),
                     slug |-> SlugValueOf(item, slugField),
                     draft |-> FALSE,
                     fieldData |-> SyncedFieldData(item, fields, columns,
                                                   use12HourTime)]>> \o rest
             ELSE rest

\* A variant of UnsyncedItems without unsyncedItems.delete(rowId).
UnsyncedItems_KeepsAll(existingIds, sourceItems, slugField) == existingIds

\* unsyncedItems after the loop: the ids got from getItemIds less the row ids
\* the loop kept.
UnsyncedItems(existingIds, sourceItems, slugField) ==
    existingIds \ {RowIdOf(sourceItems[i]) :
                    i \in {j \in 1..Len(sourceItems) : RowIsSynced(sourceItems[j], slugField)}}

\* A variant of CompatibleFields that asks every field for a collectionId.
CompatibleFields_OnlyReferences(fields) ==
    DropNulls([i \in 1..Len(fields) |->
        IF "collectionId" \notin DOMAIN fields[i] THEN Null ELSE fields[i]])

\* fields.map(...).filter(...): a multiCollectionReference field without a
\* collectionId is dropped.
CompatibleFields(fields) ==
    DropNulls([i \in 1..Len(fields) |->
        IF fields[i].type = "multiCollectionReference" /\ "collectionId" \notin DOMAIN fields[i]
        THEN Null ELSE fields[i]])

----------------------------------------------------------------------------
(* The plug-in's state before anything is loaded *)

\* tResult, mResult before the call under test has returned
Pending == [k |-> "pending"]

PluginDataKeys == {"apiKey", "docId", "tableId", "dataSourceId", "slugFieldId", "codaTableId"}
BookkeepingKeys == {PLUGIN_KEYS.DATA_SOURCE_ID, PLUGIN_KEYS.SLUG_FIELD_ID,
                    PLUGIN_KEYS.CODA_TABLE_ID}

\* A managed collection that was never configured.
FreshCollection ==
    [itemIds |-> {}, fields |-> <<>>, pluginData |-> [key \in PluginDataKeys |-> Null]]

\* const [dataSourceResult] = useState(null); const [isLoadingDataSource] = useState(false)
InitialApp == [mounted |-> TRUE, dataSourceResult |-> Null, isLoadingDataSource |-> FALSE]

NoLoad == [pc |-> "idle", via |-> "none", aborted |-> FALSE, fetched |-> FALSE]

defaultSlugField == Field(IdKey, <<"Row ID">>, "string")

NoForm ==
    [mounted |-> FALSE, status |-> "mapping-fields", fieldsLoaded |-> FALSE,
     fields |-> <<>>, ignoredFieldIds |-> {}, selectedSlugField |-> defaultSlugField]

EmptyTable == [id |-> <<"grid-1">>, columns |-> <<>>, rows |-> <<>>]

\* The flow is not running: the specifications of the pure functions.
FlowIdle ==
    /\ table = EmptyTable
    /\ framerData = [use12HourTimeFormat |-> Null]
    /\ dest = FreshCollection
    /\ props = [previousDataSourceId |-> Null, previousSlugFieldId |-> Null]
    /\ app = InitialApp
    /\ load = NoLoad
    /\ form = NoForm
    /\ syncs = <<>>
    /\ calls = [w \in {0} |-> <<>>]
    /\ notices = {}

\* The field lists of two loads are not under test.
EnumIdle ==
    /\ eInput = Pending
    /\ eFirst = Pending
    /\ eSecond = Pending

\* No lookup column is under test.
LookupIdle ==
    /\ lInput = Pending
    /\ lResult = Pending

\* The requests of getCodaDataSource are not under test.
RequestIdle ==
    /\ uInput = Pending
    /\ uResult = Pending

\* No pure function is under test: the specifications of the flow.
PureIdle ==
    /\ tInput = Pending
    /\ tResult = Pending
    /\ mColumn = Pending
    /\ mResult = Pending
    /\ EnumIdle
    /\ LookupIdle
    /\ RequestIdle

----------------------------------------------------------------------------
(* transformCodaValue on sample arguments *)

MaxBlank == 2

Blank(n) == [i \in 1..n |-> " "]

AssetUrl == <<"https://", "codahosted.io/", "x", ".png">>

FieldTypes == {"string", "number", "boolean", "date", "image", "file", "formattedText",
               "link", "collectionReference", "multiCollectionReference", "enum"}

\* Raw values of number columns.
SampleNumbers ==
    {Str(<<"$", "1", ",", "234", ".", "50">>), Str(<<"15", "%">>), Str(<<"abc">>),
     Str(<<"€", " ", "5">>), Str(<<"abc", "%">>),
     NumQ(3, 2),
     Obj([amount |-> Num(15)]),
     Obj([value |-> Num(5), amount |-> Num(15)]),
     Obj(("@type" :> Str(<<"MonetaryAmount">>)) @@ [value |-> Num(5), amount |-> Num(15)]),
     Obj([amount |-> Str(<<"15">>)])}

\* Raw values of text columns: wrapper objects and arrays.
SampleWrappers ==
    {Obj([rawValue |-> Str(<<"r">>), value |-> Str(<<"v">>)]),
     Obj([value |-> Str(<<"v">>), displayValue |-> Str(<<"d">>)]),
     Obj([displayValue |-> Str(<<"d">>), name |-> Str(<<"n">>)]),
     Obj([name |-> Str(<<"n">>), content |-> Str(<<"c">>)]),
     Obj([content |-> Str(<<"c">>)]),
     Obj([value |-> Num(5), name |-> Str(<<"n">>)]),
     Obj([id |-> Str(<<"x">>)]),
     Obj([rawValue |-> Str(<<>>), name |-> Str(<<"n">>)]),
     Obj(("@type" :> Str(<<"WebPage">>))
         @@ [url |-> Str(<<"mailto:", "n@x.io">>), name |-> Str(<<"n">>)]),
     Obj([rawValue |-> Arr(<<Str(<<"a">>), Str(<<"b">>)>>), name |-> Str(<<"n">>)]),
     Arr(<<Str(<<"a">>), Obj([name |-> Str(<<"n">>)])>>),
     Arr(<<Str(<<"a">>), Str(<<>>), Str(<<"b">>)>>),
     Arr(<<Str(<<"a">>), Null>>)}

HostedUrl == <<"https://", "codahosted.io/", "abc">>
OtherUrl == <<"https://", "x.io/", "y", ".jpg">>

ImageObject(urls) == Obj(("@type" :> Str(<<"ImageObject">>)) @@ urls)

\* Raw values of image and file columns.
SampleAssets ==
    {Str(<<"not-a-url">>), Str(HostedUrl), Str(<<"x", ".png">>),
     Str(<<"http://", "x.io/", "y">>),
     Obj([url |-> Str(HostedUrl)]), Obj([link |-> Str(<<"not-a-url">>)]),
     ImageObject([url |-> Str(HostedUrl), contentUrl |-> Str(OtherUrl)]),
     ImageObject([contentUrl |-> Str(HostedUrl)]),
     ImageObject([url |-> Str(<<"not-a-url">>), contentUrl |-> Str(HostedUrl)]),
     ImageObject([contentUrl |-> Str(HostedUrl), thumbnailUrl |-> Str(OtherUrl)]),
     ImageObject([url |-> Num(5), thumbnailUrl |-> Str(OtherUrl)]),
     ImageObject([name |-> Str(<<"n">>)]),
     Arr(<<ImageObject([url |-> Str(<<"not-a-url">>), contentUrl |-> Str(HostedUrl)])>>),
     Arr(<<ImageObject([name |-> Str(<<"n">>)]),
           ImageObject([thumbnailUrl |-> Str(OtherUrl)])>>),
     Arr(<<ImageObject([url |-> Str(<<"not-a-url">>)])>>)}

SampleValues ==
    {Null, Undefined}
    \cup {Str(Blank(n)) : n \in 0..MaxBlank}
    \cup {Str(<<"a">>), Str(<<" ", "a", " ">>), Str(<<"5">>), Num(5), Bool(TRUE),
          Str(<<"2024-09-30">>),
          Str(<<"2024-09-30", "T", "20", ":00:00", "-04:00">>),
          Str(AssetUrl), Arr(<<>>), Arr(<<Null>>),
          Obj([name |-> Str(<<"a">>)])}
    \cup SampleNumbers \cup SampleWrappers \cup SampleAssets

SampleFields ==
    {Field(<<"f">>, <<"F">>, t) : t \in (FieldTypes \ {"enum"}) \cup {"color"}}
    \cup {[id |-> <<"f">>, name |-> <<"F">>, type |-> "enum",
           cases |-> <<[id |-> <<"case-a">>, name |-> <<"a">>]>>]}

SampleCodaTypes == {"text", "date", "datetime", "time"}

InitTransform ==
    /\ FlowIdle
    /\ LookupIdle
    /\ RequestIdle
    /\ machineTz \in {0 - 4, 0}
    /\ tInput \in [value : SampleValues, field : SampleFields,
                   codaColumnType : SampleCodaTypes, use12HourTime : BOOLEAN]
    /\ tResult = Pending
    /\ mColumn = Pending
    /\ mResult = Pending
    /\ EnumIdle

\* One call of transformCodaValue.
Transform ==
    /\ tInput # Pending
    /\ tResult = Pending
    /\ tResult' = transformCodaValue(tInput.value, tInput.field, tInput.codaColumnType,
                                     tInput.use12HourTime)
    /\ UNCHANGED <<machineTz, tInput, mColumn, mResult, enumVars, lookupVars, requestVars, flowVars>>

NextTransform == Transform

SpecTransform == InitTransform /\ [][NextTransform]_vars

----------------------------------------------------------------------------
(* mapCodaTypeToFramerType on sample columns *)

SampleNames == {<<"Title">>, <<"Cover", " ", "Image">>, <<"Hero", "Graphic">>, <<"image">>}
SampleIds == {<<"c-1">>, <<"c-", "image">>, <<"c-", "Graphic">>}

SampleChoices == <<[id |-> <<"o1">>, name |-> <<"Red">>], [name |-> <<"Blue">>]>>

SampleFormats ==
    {[type |-> t] : t \in {"text", "Text", "number", "checkbox", "date", "datetime", "time",
                           "image", "IMAGE", "file", "canvas", "person", "url",
                           "button", "Button", "slider"}}
    \cup {[type |-> t, options |-> [isArray |-> a, choices |-> SampleChoices]] :
            t \in {"select", "scale"}, a \in BOOLEAN}
    \cup {[type |-> t, isArray |-> a] : t \in {"lookup", "Lookup", "reference"},
                                        a \in BOOLEAN}
    \cup {[type |-> t] : t \in {"lookup", "reference"}}

InitMap ==
    /\ FlowIdle
    /\ LookupIdle
    /\ RequestIdle
    /\ machineTz = 0
    /\ tInput = Pending
    /\ tResult = Pending
    /\ mColumn \in [id : SampleIds, name : SampleNames, format : SampleFormats]
    /\ mResult = Pending
    /\ EnumIdle

\* One call of mapCodaTypeToFramerType.
MapColumn ==
    /\ mColumn # Pending
    /\ mResult = Pending
    /\ mResult' = mapCodaTypeToFramerType(mColumn)
    /\ UNCHANGED <<machineTz, tInput, tResult, mColumn, enumVars, lookupVars, requestVars, flowVars>>

NextMap == MapColumn

SpecMap == InitMap /\ [][NextMap]_vars

----------------------------------------------------------------------------
(* The fields of getCodaDataSource on two loads of one table *)

MaxLookupRows == 2

StatusId == <<"c-status">>
ColorId == <<"c-color">>

\* What a row holds in the lookup column.
SampleLookupValues ==
    {Str(<<"Red">>),
     Str(<<"<fence>", "Blue", " ", "<fence>">>),
     Obj([name |-> Str(<<"Blue">>)]),
     Arr(<<Str(<<"Green">>), Obj([value |-> Str(<<"Red">>)])>>),
     Str(<<"<fence>", "<fence>">>),
     Obj([name |-> Num(5), id |-> Str(<<"row-1">>)]),
     Null}

SampleLookupRows ==
    UNION {[1..n -> {[id |-> <<"r">>, values |-> [key \in {StatusId} |-> v]] :
                        v \in SampleLookupValues}] : n \in 0..MaxLookupRows}

\* The declared choices of the select column, in three orders; one choice has
\* neither an id nor a name.
SampleChoiceLists ==
    LET red == [id |-> <<"o1">>, name |-> <<"Red">>]
        blue == [name |-> <<"Blue">>]
        blank == [name |-> <<>>]
    IN  {<<red, blue, blank>>, <<blank, red, blue>>, <<blue, blank, red>>}

EnumTables == [rows : SampleLookupRows, choices : SampleChoiceLists]

EnumColumns(choices) ==
    <<[id |-> StatusId, name |-> <<"Status">>,
       format |-> [type |-> "lookup", isArray |-> FALSE]],
      [id |-> ColorId, name |-> <<"Color">>,
       format |-> [type |-> "select", options |-> [isArray |-> TRUE, choices |-> choices]]]>>

EnumFields(t) ==
    LoadedFields([i \in 1..2 |-> LoadedColumn(EnumColumns(t.choices)[i])], t.rows)

InitEnum ==
    /\ FlowIdle
    /\ LookupIdle
    /\ RequestIdle
    /\ machineTz = 0
    /\ tInput = Pending
    /\ tResult = Pending
    /\ mColumn = Pending
    /\ mResult = Pending
    /\ eInput \in [first : EnumTables, second : {Pending}]
    /\ eFirst = Pending
    /\ eSecond = Pending

\* The first load builds its fields.
LoadFields ==
    /\ eInput # Pending
    /\ eFirst = Pending
    /\ eFirst' = EnumFields(eInput.first)
    /\ UNCHANGED <<machineTz, tInput, tResult, mColumn, mResult, eInput, eSecond, lookupVars, requestVars, flowVars>>

\* A later load of the table, whose rows and order of choices may have
\* changed, builds its fields.
LoadFieldsAgain ==
    /\ eFirst # Pending
    /\ eSecond = Pending
    /\ \E t \in EnumTables :
          /\ eInput' = [eInput EXCEPT !.second = t]
          /\ eSecond' = EnumFields(t)
    /\ UNCHANGED <<machineTz, tInput, tResult, mColumn, mResult, eFirst, lookupVars, requestVars, flowVars>>

NextEnum == LoadFields \/ LoadFieldsAgain

SpecEnum == InitEnum /\ [][NextEnum]_vars

----------------------------------------------------------------------------
(* findCollectionByCodaTableId and the field of a multi-valued lookup column *)

MaxCollections == 2

\* The table the lookup column refers to.
TargetId == <<"grid-", "base">>

\* What a managed collection holds under codaTableId: nothing, the target, two
\* views of the target, a view of it whose id is not a grid id, a canvas, a
\* table of its own.
SampleStoredIds ==
    {Null, Str(<<>>), Str(TargetId), Str(<<"grid-", "view">>), Str(<<"grid-", "view2">>),
     Str(<<"table-", "view">>), Str(<<"canvas-", "view">>), Str(<<"grid-", "other">>)}

\* GET /docs/{docId}/tables/{tableId}: the body of the answer.
TableData(tableId) ==
    CASE tableId = <<"grid-", "view">> -> [id |-> tableId, parent |-> [id |-> TargetId]]
      [] tableId = <<"grid-", "view2">> -> [id |-> tableId, parentTable |-> [id |-> TargetId]]
      [] tableId = <<"table-", "view">> -> [id |-> tableId, parent |-> [id |-> TargetId]]
      [] tableId = <<"canvas-", "view">> -> [id |-> tableId, parent |-> [id |-> TargetId]]
      [] tableId = <<"grid-", "other">> ->
            [id |-> tableId, parent |-> [id |-> <<"grid-", "third">>]]
      [] OTHER -> [id |-> tableId]

SampleCollections ==
    [id : {<<"col-1">>}, name : {<<"Posts">>}, codaTableId : SampleStoredIds,
     configured : BOOLEAN]

\* The collections framer.getManagedCollections() returns, each with an id of
\* its own.
CollectionLists ==
    UNION {{[i \in 1..n |-> [cs[i] EXCEPT !.id = <<"col-", ToString(i)>>]] :
               cs \in [1..n -> SampleCollections]} : n \in 0..MaxCollections}

SampleLookupColumns ==
    {[id |-> <<"c-tags">>, name |-> <<"Tags">>,
      format |-> [type |-> "lookup", isArray |-> TRUE, table |-> [id |-> TargetId]]],
     [id |-> <<"c-tags">>, name |-> <<"Tags">>, format |-> [type |-> "lookup", isArray |-> TRUE]],
     [id |-> <<"c-tags">>, name |-> <<"Tags">>,
      format |-> [type |-> "lookup", isArray |-> FALSE, table |-> [id |-> TargetId]]]}

\* tableData.parent?.id || tableData.parentTable?.id
ParentId(tableData) ==
    IF "parent" \in DOMAIN tableData /\ tableData.parent.id # <<>> THEN tableData.parent.id
    ELSE IF "parentTable" \in DOMAIN tableData THEN tableData.parentTable.id
    ELSE <<>>

\* The second pass looks at this collection: it holds a table id, an api key
\* and a doc id, and the table id is a grid id.
IsCandidate(collection) ==
    /\ collection.codaTableId \notin {Null, Str(<<>>)}
    /\ collection.configured
    /\ ~StartsWith(collection.codaTableId.s, "canvas-")
    /\ StartsWith(collection.codaTableId.s, "grid-")

\* findCollectionByCodaTableId(codaTableId).  framerThrows: a call of the
\* Framer API rejects; response: how the upstream answers the metadata
\* requests ("ok", "not-ok", or "throws" for a failed fetch).
findCollectionByCodaTableId(codaTableId, collections, response, framerThrows) ==
    LET exact == {i \in 1..Len(collections) : collections[i].codaTableId = Str(codaTableId)}
        views == {i \in 1..Len(collections) :
                    /\ IsCandidate(collections[i])
                    /\ response = "ok"
                    /\ ParentId(TableData(collections[i].codaTableId.s)) = codaTableId}
        least(S) == CHOOSE i \in S : \A j \in S : i <= j
        found(i) == [id |-> collections[i].id, name |-> collections[i].name]
    IN  IF framerThrows THEN Null
        ELSE IF exact # {} THEN found(least(exact))
        ELSE IF views # {} THEN found(least(views))
        ELSE Null

\* The field getCodaDataSource builds for the column.
LookupField(col, collections, response, framerThrows) ==
    LET mappedField == mapCodaTypeToFramerType(col)
        isMulti == LowerTok(col.format.type) = "lookup" /\ IsArrayColumn(col)
        referencedCollection ==
            IF isMulti /\ "table" \in DOMAIN col.format /\ col.format.table.id # <<>>
            THEN findCollectionByCodaTableId(col.format.table.id, collections, response,
                                             framerThrows)
            ELSE Null
    IN  IF mappedField # Null /\ mappedField.type = "string" /\ isMulti
           /\ referencedCollection # Null
        THEN [id |-> col.id, name |-> col.name, type |-> "multiCollectionReference",
              collectionId |-> referencedCollection.id]
        ELSE mappedField

InitLookup ==
    /\ FlowIdle
    /\ machineTz = 0
    /\ tInput = Pending
    /\ tResult = Pending
    /\ mColumn = Pending
    /\ mResult = Pending
    /\ EnumIdle
    /\ lInput \in [column : SampleLookupColumns, collections : CollectionLists,
                   response : {"ok", "not-ok", "throws"}, framerThrows : BOOLEAN]
    /\ lResult = Pending
    /\ RequestIdle

\* The loop of getCodaDataSource over the lookup columns, and the field of the
\* column.
ResolveLookup ==
    /\ lInput # Pending
    /\ lResult = Pending
    /\ lResult' = [found |-> findCollectionByCodaTableId(TargetId, lInput.collections,
                                                         lInput.response,
                                                         lInput.framerThrows),
                   field |-> LookupField(lInput.column, lInput.collections,
                                         lInput.response, lInput.framerThrows)]
    /\ UNCHANGED <<machineTz, tInput, tResult, mColumn, mResult, enumVars, lInput, requestVars, flowVars>>

NextLookup == ResolveLookup

SpecLookup == InitLookup /\ [][NextLookup]_vars

----------------------------------------------------------------------------
(* The upstream requests of getCodaDataSource *)

\* The answers of the upstream: a status and the text of the body.
SampleStatuses == {200, 401, 404, 500}
SampleBodies == {<<>>, <<"Unauthorized">>}
SampleResponses == [status : SampleStatuses, body : SampleBodies]

\* response.ok
IsOk(response) == response.status \in 200..299

\* new Error(...) of the three requests
TableError(response) ==
    <<"Failed to fetch table metadata from Coda: ", ToString(response.status)>>
ColumnsError(response) ==
    <<"Failed to fetch data from Coda: ", ToString(response.status)>>
RowsError(response) ==
    <<"Failed to fetch data from Coda: ", ToString(response.status), " ">> \o response.body

\* The requests in program order: the first answer that is not ok rejects the
\* call with its error, and the later requests are not made.
RequestsOutcome(responses) ==
    IF ~IsOk(responses.table)
    THEN [rejected |-> TRUE, failed |-> "table", message |-> TableError(responses.table)]
    ELSE IF ~IsOk(responses.columns)
    THEN [rejected |-> TRUE, failed |-> "columns", message |-> ColumnsError(responses.columns)]
    ELSE IF ~IsOk(responses.rows)
    THEN [rejected |-> TRUE, failed |-> "rows", message |-> RowsError(responses.rows)]
    ELSE [rejected |-> FALSE, failed |-> "none", message |-> <<>>]

InitRequests ==
    /\ FlowIdle
    /\ machineTz = 0
    /\ tInput = Pending
    /\ tResult = Pending
    /\ mColumn = Pending
    /\ mResult = Pending
    /\ EnumIdle
    /\ LookupIdle
    /\ uInput \in [table : SampleResponses, columns : SampleResponses,
                   rows : SampleResponses]
    /\ uResult = Pending

\* getCodaDataSource, its three requests.
FetchTable ==
    /\ uInput # Pending
    /\ uResult = Pending
    /\ uResult' = RequestsOutcome(uInput)
    /\ UNCHANGED <<machineTz, tInput, tResult, mColumn, mResult, enumVars, lookupVars,
                   uInput, flowVars>>

NextRequests == FetchTable

SpecRequests == InitRequests /\ [][NextRequests]_vars

----------------------------------------------------------------------------
(* The session: App, FieldMapping and syncCollection *)

\* framer.getPluginData("use12HourTimeFormat") === "true"
use12HourTimePreference == framerData.use12HourTimeFormat = Str(<<"true">>)

ApiKey == <<"api-key">>
DocId == <<"doc-1">>

\* getCodaDataSource(apiKey, docId, tableId): the upstream requests may fail
\* (fetched = FALSE), and then the call rejects.
LoadResult(fetched, tableId) ==
    IF ~fetched THEN Thrown
    ELSE getCodaDataSourceResult(table, tableId, use12HourTimePreference)

\* getDataSource: the configuration is read from the collection's plug-in data.
getDataSourceResult(fetched) ==
    IF \E key \in {"apiKey", "docId", "tableId"} : dest.pluginData[key] \in {Null, Str(<<>>)}
    THEN Thrown
    ELSE LoadResult(fetched, dest.pluginData["tableId"].s)

\* A message to the user, and the call of syncCollection it is about (0: none).
Notice(about, text) == [about |-> about, text |-> text]

Write(op, key, arg, ok) == [op |-> op, key |-> key, arg |-> arg, ok |-> ok]

\* A variant of LoadWrites that stores the configuration on both paths.
LoadWrites_BothPaths(via, tableId) ==
    <<Write("setPluginData", "apiKey", Str(ApiKey), TRUE),
      Write("setPluginData", "docId", Str(DocId), TRUE),
      Write("setPluginData", "tableId", Str(tableId), TRUE)>>

\* The writes of a load that got its data: handleSelectDataSource stores the
\* configuration; the effect that calls getDataSource writes nothing.
LoadWrites(via, tableId) ==
    IF via = "select"
    THEN <<Write("setPluginData", "apiKey", Str(ApiKey), TRUE),
           Write("setPluginData", "docId", Str(DocId), TRUE),
           Write("setPluginData", "tableId", Str(tableId), TRUE)>>
    ELSE <<>>

\* A variant of SettledWrites that stores the configuration before the load
\* has ended.
SettledWrites_BeforeLoading(result, via, tableId) == LoadWrites(via, tableId)

\* The writes of a load: a load that failed never reaches them.
SettledWrites(result, via, tableId) ==
    IF result = Thrown THEN <<>> ELSE LoadWrites(via, tableId)

\* collection.setPluginData(key, value), one call after the other
RECURSIVE ApplyWrites(_, _)
ApplyWrites(pluginData, writes) ==
    IF writes = <<>> THEN pluginData
    ELSE ApplyWrites([pluginData EXCEPT ![Head(writes).key] = Head(writes).arg],
                     Tail(writes))

\* if (!abortController.signal.aborted) setDataSourceResult(result)
DeliversResult(l) == ~l.aborted

possibleSlugFields(dataSource) ==
    LET IsStringField(f) == f.type = "string"
    IN  <<defaultSlugField>> \o SelectSeq(dataSource.fields, IsStringField)

\* The state a FieldMapping instance is created with.
MountedForm(result) ==
    LET slugs == possibleSlugFields(result.dataSource)
        found == {j \in 1..Len(slugs) : Str(slugs[j].id) = props.previousSlugFieldId}
    IN  [mounted |-> TRUE,
         status |-> IF props.previousSlugFieldId \notin {Null, Str(<<>>)}
                    THEN "loading-fields" ELSE "mapping-fields",
         fieldsLoaded |-> FALSE,
         fields |-> <<>>,
         ignoredFieldIds |-> {},
         selectedSlugField |-> IF found = {} THEN defaultSlugField
                               ELSE slugs[CHOOSE j \in found : \A m \in found : j <= m]]

\* A variant of mergeFieldsWithExistingFields that returns the existing field
\* whole.
mergeFieldsWithExistingFields_KeepsExisting(sourceFields, existingFields) ==
    [i \in 1..Len(sourceFields) |->
        IF FieldById(existingFields, sourceFields[i].id) # Null
        THEN FieldById(existingFields, sourceFields[i].id)
        ELSE sourceFields[i]]

mergeFieldsWithExistingFields(sourceFields, existingFields) ==
    [i \in 1..Len(sourceFields) |->
        IF FieldById(existingFields, sourceFields[i].id) # Null
        THEN [sourceFields[i] EXCEPT
                 !.name = FieldById(existingFields, sourceFields[i].id).name]
        ELSE sourceFields[i]]

\* No FieldMapping instance is on screen any more: the handleSubmit calls still
\* running can no longer change a form.
Detached(ss) == [k \in 1..Len(ss) |-> [ss[k] EXCEPT !.attached = FALSE]]

\* handleSelectDataSource, up to its await of getCodaDataSource
SelectDataSource ==
    /\ app.mounted /\ ~app.isLoadingDataSource /\ app.dataSourceResult = Null
    /\ app' = [app EXCEPT !.isLoadingDataSource = TRUE]
    /\ load' = [pc |-> "fetching", via |-> "select", aborted |-> FALSE, fetched |-> FALSE]
    /\ UNCHANGED <<machineTz, pureVars, table, framerData, dest, props, form, syncs,
                   calls, notices>>

\* The load settled with 'result': the rest of handleSelectDataSource, or the
\* then / catch / finally callbacks of the effect.  A state update of an
\* unmounted App is lost.
LoadSettled(fetched, result, writes, heard) ==
    /\ load' = [load EXCEPT !.fetched = fetched,
                            !.pc = IF ~heard THEN "dropped"
                                   ELSE IF result = Thrown THEN "rejected"
                                   ELSE "delivered"]
    /\ dest' = [dest EXCEPT !.pluginData = ApplyWrites(@, writes)]
    /\ calls' = [calls EXCEPT ![0] = @ \o writes]
    /\ IF heard /\ app.mounted
       THEN /\ app' = [app EXCEPT
                         !.dataSourceResult =
                             IF result # Thrown THEN result
                             ELSE IF load.via = "select" THEN @ ELSE Null,
                         !.isLoadingDataSource = FALSE]
            /\ form' = IF result # Thrown THEN MountedForm(result) ELSE form
            /\ notices' = IF result = Thrown
                          THEN notices \cup {Notice(0, "load-failed")}
                          ELSE notices
       ELSE UNCHANGED <<app, form, notices>>
    /\ UNCHANGED <<machineTz, pureVars, table, framerData, props, syncs>>

LoadSettles(fetched) ==
    /\ load.pc = "fetching"
    /\ \E result \in {IF load.via = "select" THEN LoadResult(fetched, table.id)
                      ELSE getDataSourceResult(fetched)} :
          LoadSettled(fetched, result, SettledWrites(result, load.via, table.id),
                      load.via = "select" \/ DeliversResult(load))

\* collection.getFields().then(...) of the form's effect
FormFieldsLoaded ==
    /\ form.mounted /\ ~form.fieldsLoaded
    /\ LET merged == mergeFieldsWithExistingFields(app.dataSourceResult.dataSource.fields,
                                                   dest.fields)
           editing == props.previousSlugFieldId \notin {Null, Str(<<>>)}
       IN  form' = [form EXCEPT
                      !.fieldsLoaded = TRUE,
                      !.fields = merged,
                      !.ignoredFieldIds =
                          {merged[i].id : i \in {j \in 1..Len(merged) :
                              editing /\ FieldById(dest.fields, merged[j].id) = Null}},
                      !.status = "mapping-fields"]
    /\ UNCHANGED <<machineTz, pureVars, table, framerData, dest, props, app, load, syncs,
                   calls, notices>>

\* toggleFieldDisabledState(fieldId)
ToggleField(fieldId) ==
    /\ form.mounted /\ form.status # "loading-fields"
    /\ FieldById(form.fields, fieldId) # Null
    /\ form' = [form EXCEPT !.ignoredFieldIds =
                    IF fieldId \in @ THEN @ \ {fieldId} ELSE @ \cup {fieldId}]
    /\ UNCHANGED <<machineTz, pureVars, table, framerData, dest, props, app, load, syncs,
                   calls, notices>>

\* onChange of the slug field select
SelectSlugField(j) ==
    /\ form.mounted /\ form.status # "loading-fields"
    /\ j \in 1..Len(possibleSlugFields(app.dataSourceResult.dataSource))
    /\ possibleSlugFields(app.dataSourceResult.dataSource)[j] # form.selectedSlugField
    /\ form' = [form EXCEPT !.selectedSlugField =
                    possibleSlugFields(app.dataSourceResult.dataSource)[j]]
    /\ UNCHANGED <<machineTz, pureVars, table, framerData, dest, props, app, load, syncs,
                   calls, notices>>

\* name: field.name.trim() || field.id, and the enum cases rewritten
SanitizedField(field) ==
    LET named == [field EXCEPT !.name = IF Trim(field.name) # <<>> THEN Trim(field.name)
                                        ELSE field.id]
    IN  IF field.type = "enum" /\ "cases" \in DOMAIN field
        THEN [named EXCEPT !.cases =
                [i \in 1..Len(field.cases) |->
                    [id |-> IF "id" \in DOMAIN field.cases[i] /\ field.cases[i].id # <<>>
                            THEN field.cases[i].id
                            ELSE <<"case-", ToString(i - 1)>>,
                     name |-> field.cases[i].name,
                     nameByLocale |-> [en |-> field.cases[i].name]]]]
        ELSE named

FieldsToSync(f) ==
    LET sanitized == [i \in 1..Len(f.fields) |-> SanitizedField(f.fields[i])]
        IsKept(field) == field.id \notin f.ignoredFieldIds
    IN  SelectSeq(sanitized, IsKept)

Bookkeeping(pluginData) == [key \in BookkeepingKeys |-> pluginData[key]]

\* handleSubmit, up to its await of syncCollection: the Import button is on
\* screen and enabled.  'before' remembers the bookkeeping at the call.
Import ==
    /\ form.mounted /\ form.status = "mapping-fields"
    /\ form' = [form EXCEPT !.status = "syncing-collection"]
    /\ syncs' = Append(syncs,
                       [pc |-> "prepare", at |-> 1, attached |-> TRUE, handled |-> FALSE,
                        fields |-> FieldsToSync(form),
                        slugField |-> form.selectedSlugField,
                        source |-> app.dataSourceResult,
                        existing |-> {}, unsynced |-> {}, items |-> <<>>,
                        before |-> Bookkeeping(dest.pluginData)])
    /\ calls' = [w \in 0..(Len(syncs) + 1) |-> IF w \in DOMAIN calls THEN calls[w] ELSE <<>>]
    /\ UNCHANGED <<machineTz, pureVars, table, framerData, dest, props, app, load, notices>>

\* syncCollection up to its first write: getItemIds and the loop over the items
SyncPrepare(k) ==
    /\ k \in 1..Len(syncs)
    /\ syncs[k].pc = "prepare"
    /\ LET s == syncs[k]
           source == s.source.dataSource
           throws == SyncThrows(source.items, s.fields, s.source.codaColumns, s.slugField,
                                use12HourTimePreference)
       IN  syncs' = [syncs EXCEPT ![k] =
              IF throws THEN [s EXCEPT !.pc = "rejected"]
              ELSE [s EXCEPT !.pc = "writing",
                             !.existing = dest.itemIds,
                             !.unsynced = UnsyncedItems(dest.itemIds, source.items,
                                                        s.slugField),
                             !.items = SyncItems(source.items, s.fields,
                                                 s.source.codaColumns, s.slugField,
                                                 use12HourTimePreference)]]
    /\ UNCHANGED <<machineTz, pureVars, table, framerData, dest, props, app, load, form,
                   calls, notices>>

\* A variant of SyncSteps that persists the bookkeeping before the items.
SyncSteps_BookkeepingFirst ==
    <<"setFields", "dataSourceId", "slugFieldId", "codaTableId", "removeItems", "addItems">>

\* The awaited writes of syncCollection, in program order.
SyncSteps ==
    <<"setFields", "removeItems", "addItems", "dataSourceId", "slugFieldId", "codaTableId">>

\* A variant of Awaited that goes on after a write that failed.
Awaited_Swallowed(s, ok) ==
    IF s.at = Len(SyncSteps) THEN [s EXCEPT !.pc = "resolved"]
    ELSE [s EXCEPT !.at = s.at + 1]

\* await: a write that fails rejects syncCollection; after the last write it
\* resolves.
Awaited(s, ok) ==
    IF ~ok THEN [s EXCEPT !.pc = "rejected"]
    ELSE IF s.at = Len(SyncSteps) THEN [s EXCEPT !.pc = "resolved"]
    ELSE [s EXCEPT !.at = s.at + 1]

AtStep(k, steps) ==
    /\ k \in 1..Len(syncs)
    /\ syncs[k].pc = "writing"
    /\ SyncSteps[syncs[k].at] \in steps

\* await collection.setFields([...compatibleFields])
SyncSetFields(k, ok) ==
    /\ AtStep(k, {"setFields"})
    /\ calls' = [calls EXCEPT ![k] =
                    Append(@, Write("setFields", "", CompatibleFields(syncs[k].fields), ok))]
    /\ dest' = IF ok THEN [dest EXCEPT !.fields = CompatibleFields(syncs[k].fields)]
               ELSE dest
    /\ syncs' = [syncs EXCEPT ![k] = Awaited(@, ok)]
    /\ UNCHANGED <<machineTz, pureVars, table, framerData, props, app, load, form, notices>>

\* await collection.removeItems(Array.from(unsyncedItems))
SyncRemoveItems(k, ok) ==
    /\ AtStep(k, {"removeItems"})
    /\ calls' = [calls EXCEPT ![k] =
                    Append(@, Write("removeItems", "", syncs[k].unsynced, ok))]
    /\ dest' = IF ok THEN [dest EXCEPT !.itemIds = @ \ syncs[k].unsynced] ELSE dest
    /\ syncs' = [syncs EXCEPT ![k] = Awaited(@, ok)]
    /\ UNCHANGED <<machineTz, pureVars, table, framerData, props, app, load, form, notices>>

\* await collection.addItems(items): an item whose id exists is replaced
SyncAddItems(k, ok) ==
    /\ AtStep(k, {"addItems"})
    /\ calls' = [calls EXCEPT ![k] =
                    Append(@, Write("addItems", "", syncs[k].items, ok))]
    /\ dest' = IF ok
               THEN [dest EXCEPT !.itemIds =
                        @ \cup {syncs[k].items[i].id : i \in 1..Len(syncs[k].items)}]
               ELSE dest
    /\ syncs' = [syncs EXCEPT ![k] = Awaited(@, ok)]
    /\ UNCHANGED <<machineTz, pureVars, table, framerData, props, app, load, form, notices>>

\* The value stored under a bookkeeping key.
BookkeepingValue(s, key) ==
    CASE key = PLUGIN_KEYS.DATA_SOURCE_ID -> Str(s.source.dataSource.id)
      [] key = PLUGIN_KEYS.SLUG_FIELD_ID -> Str(s.slugField.id)
      [] OTHER -> IF s.source.codaTableId # <<>> THEN Str(s.source.codaTableId)
                  ELSE Str(s.source.dataSource.id)

\* await collection.setPluginData(PLUGIN_KEYS.*, ...), one of the three
SyncSetPluginData(k, ok) ==
    /\ AtStep(k, BookkeepingKeys)
    /\ LET key == SyncSteps[syncs[k].at]
           value == BookkeepingValue(syncs[k], key)
       IN  /\ calls' = [calls EXCEPT ![k] = Append(@, Write("setPluginData", key, value, ok))]
           /\ dest' = IF ok THEN [dest EXCEPT !.pluginData[key] = value] ELSE dest
    /\ syncs' = [syncs EXCEPT ![k] = Awaited(@, ok)]
    /\ UNCHANGED <<machineTz, pureVars, table, framerData, props, app, load, form, notices>>

\* The rest of handleSubmit, once syncCollection settled: closePlugin on
\* success (the plug-in's UI goes away), the error notice on failure, and in
\* both cases setStatus("mapping-fields") on the form that started it.
SubmitSettles(k) ==
    /\ k \in 1..Len(syncs)
    /\ syncs[k].pc \in {"resolved", "rejected"}
    /\ ~syncs[k].handled
    /\ IF syncs[k].pc = "resolved"
       THEN /\ notices' = notices \cup {Notice(k, "sync-success")}
            /\ app' = [app EXCEPT !.mounted = FALSE]
            /\ load' = [load EXCEPT !.aborted = (load.via = "effect")]
            /\ form' = NoForm
            /\ syncs' = [Detached(syncs) EXCEPT ![k].handled = TRUE]
       ELSE /\ notices' = notices \cup {Notice(k, "sync-failed")}
            /\ form' = IF syncs[k].attached THEN [form EXCEPT !.status = "mapping-fields"]
                       ELSE form
            /\ syncs' = [syncs EXCEPT ![k].handled = TRUE]
            /\ UNCHANGED <<app, load>>
    /\ UNCHANGED <<machineTz, pureVars, table, framerData, dest, props, calls>>

\* handleGoBackToDataSourceSelection: the Back button is on screen whenever the
\* form is.  The preload of docs and tables may fail.
Back(preloaded) ==
    /\ app.mounted /\ form.mounted /\ form.status # "loading-fields"
    /\ LET configured == \A key \in {"apiKey", "docId"} :
                            dest.pluginData[key] \notin {Null, Str(<<>>)}
           clears == configured /\ preloaded
       IN  /\ dest' = IF clears THEN [dest EXCEPT !.pluginData["tableId"] = Null] ELSE dest
           /\ calls' = IF clears
                       THEN [calls EXCEPT ![0] =
                                Append(@, Write("setPluginData", "tableId", Null, TRUE))]
                       ELSE calls
    /\ app' = [app EXCEPT !.dataSourceResult = Null]
    /\ form' = NoForm
    /\ syncs' = Detached(syncs)
    /\ UNCHANGED <<machineTz, pureVars, table, framerData, props, load, notices>>

\* App is unmounted (the plug-in window is closed): the cleanup of the effect
\* aborts its controller.
Abort ==
    /\ app.mounted
    /\ app' = [app EXCEPT !.mounted = FALSE]
    /\ load' = [load EXCEPT !.aborted = (load.via = "effect")]
    /\ form' = NoForm
    /\ syncs' = Detached(syncs)
    /\ UNCHANGED <<machineTz, pureVars, table, framerData, dest, props, calls, notices>>

----------------------------------------------------------------------------
(* Sessions on sample tables *)

MaxRows == 2
MaxSyncs == 2
MaxLoads == 2

TitleId == <<"c-title">>
CoverId == <<"c-cover">>
DueId == <<"c-due">>
OpenId == <<"c-open">>

SampleColumns ==
    <<[id |-> TitleId, name |-> <<"Title">>, format |-> [type |-> "text"]],
      [id |-> CoverId, name |-> <<"Cover">>, format |-> [type |-> "image"]],
      [id |-> DueId, name |-> <<"Due">>, format |-> [type |-> "date"]],
      [id |-> OpenId, name |-> <<"Open">>, format |-> [type |-> "button"]]>>

\* The cells of a row; Undefined for the title is a row without that key.
\* The cell of the button column holds the button's label.
RowValues(title, cover, due) ==
    [key \in {CoverId, DueId, OpenId} \cup (IF title = Undefined THEN {} ELSE {TitleId}) |->
        IF key = TitleId THEN title ELSE IF key = CoverId THEN cover
        ELSE IF key = DueId THEN due ELSE Str(<<"Open">>)]

SampleCells ==
    {RowValues(Str(<<"a">>), Str(AssetUrl), Str(<<"2024-09-30">>)),
     RowValues(Str(Blank(1)), Str(AssetUrl), Null),
     RowValues(Undefined, Str(AssetUrl), Str(<<>>)),
     RowValues(Str(<<"a">>), Arr(<<Null>>), Null)}

\* Row ids (CodaRow.id: string): <<>> is the empty id of a row without one.
SampleRowIds == {<<>>, <<"B">>, <<"C">>}

SampleRows == [id : SampleRowIds, values : SampleCells]

\* Coda gives every row its own id.
DistinctIds(rows) ==
    \A i, j \in 1..Len(rows) : (i # j /\ rows[i].id # <<>>) => rows[i].id # rows[j].id

SampleTables ==
    {[id |-> <<"grid-1">>, columns |-> SampleColumns, rows |-> rows] :
        rows \in {r \in UNION {[1..n -> SampleRows] : n \in 0..MaxRows} : DistinctIds(r)}}

ExistingIds == {<<"A">>, <<"B">>}

\* A collection synced before, from another table and by the title, with a
\* version of the plug-in that stored no codaTableId; the table now selected
\* is grid-1.
ConfiguredCollection(itemIds, tableId) ==
    [itemIds |-> itemIds,
     fields |-> <<Field(TitleId, <<"Headline">>, "string")>>,
     pluginData |-> [key \in PluginDataKeys |->
                        CASE key = "apiKey" -> Str(ApiKey)
                          [] key = "docId" -> Str(DocId)
                          [] key = "tableId" -> tableId
                          [] key = "dataSourceId" -> Str(<<"grid-0">>)
                          [] key = "slugFieldId" -> Str(TitleId)
                          [] OTHER -> Null]]

\* main.tsx hands App the collection's dataSourceId and slugFieldId; with a
\* previous data source the effect of App starts a load at once.
Mounted ==
    /\ machineTz = 0 - 4
    /\ PureIdle
    /\ framerData = [use12HourTimeFormat |-> Null]
    /\ props = [previousDataSourceId |-> dest.pluginData["dataSourceId"],
                previousSlugFieldId |-> dest.pluginData["slugFieldId"]]
    /\ app = [InitialApp EXCEPT
                !.isLoadingDataSource = (dest.pluginData["dataSourceId"] # Null)]
    /\ load = IF dest.pluginData["dataSourceId"] # Null
              THEN [pc |-> "fetching", via |-> "effect", aborted |-> FALSE,
                    fetched |-> FALSE]
              ELSE NoLoad
    /\ form = NoForm
    /\ syncs = <<>>
    /\ calls = [w \in {0} |-> <<>>]
    /\ notices = {}

Init ==
    /\ table \in SampleTables
    /\ dest \in {FreshCollection}
                \cup {ConfiguredCollection(ids, Str(<<"grid-1">>)) : ids \in SUBSET ExistingIds}
    /\ Mounted

\* The form's controls, used before Import, and one press of Import per
\* session.
Next ==
    \/ SelectDataSource
    \/ \E fetched \in BOOLEAN : LoadSettles(fetched)
    \/ FormFieldsLoaded
    \/ (syncs = <<>> /\ \E fieldId \in {TitleId, CoverId, DueId} : ToggleField(fieldId))
    \/ (syncs = <<>> /\ \E j \in 1..2 : SelectSlugField(j))
    \/ (syncs = <<>> /\ Import)
    \/ \E k \in 1..Len(syncs) : SyncPrepare(k)
    \/ \E k \in 1..Len(syncs), ok \in BOOLEAN : SyncSetFields(k, ok)
    \/ \E k \in 1..Len(syncs), ok \in BOOLEAN : SyncRemoveItems(k, ok)
    \/ \E k \in 1..Len(syncs), ok \in BOOLEAN : SyncAddItems(k, ok)
    \/ \E k \in 1..Len(syncs), ok \in BOOLEAN : SyncSetPluginData(k, ok)
    \/ \E k \in 1..Len(syncs) : SubmitSettles(k)

Spec == Init /\ [][Next]_vars

\* The navigation on one small table: Back, closing the window, the table
\* picker up to MaxLoads times, and Import as often as the button allows, up
\* to MaxSyncs calls of syncCollection.
UITables ==
    {[id |-> <<"grid-1">>, columns |-> SampleColumns, rows |-> rows] :
        rows \in {<<[id |-> <<"B">>,
                     values |-> RowValues(Str(<<"a">>), Str(AssetUrl), Null)]>>}}

\* The loads started from the table picker that got their data.
SelectLoads == Cardinality({i \in 1..Len(calls[0]) : calls[0][i].key = "apiKey"})

InitUI ==
    /\ table \in UITables
    /\ dest \in {FreshCollection,
                 ConfiguredCollection({<<"A">>}, Str(<<"grid-1">>)),
                 ConfiguredCollection({<<"A">>}, Null)}
    /\ Mounted

NextUI ==
    \/ (SelectLoads < MaxLoads /\ SelectDataSource)
    \/ \E fetched \in BOOLEAN : LoadSettles(fetched)
    \/ FormFieldsLoaded
    \/ (Len(syncs) < MaxSyncs /\ Import)
    \/ \E k \in 1..Len(syncs) : SyncPrepare(k)
    \/ \E k \in 1..Len(syncs), ok \in BOOLEAN : SyncSetFields(k, ok)
    \/ \E k \in 1..Len(syncs), ok \in BOOLEAN : SyncRemoveItems(k, ok)
    \/ \E k \in 1..Len(syncs), ok \in BOOLEAN : SyncAddItems(k, ok)
    \/ \E k \in 1..Len(syncs), ok \in BOOLEAN : SyncSetPluginData(k, ok)
    \/ \E k \in 1..Len(syncs) : SubmitSettles(k)
    \/ \E preloaded \in BOOLEAN : Back(preloaded)
    \/ Abort

SpecUI == InitUI /\ [][NextUI]_vars

(* syncExistingCollection, and the form, on a table with enum columns *)

\* A title, a single-valued lookup and a select with declared choices.
ExistingColumns(choices) == <<SampleColumns[1]>> \o EnumColumns(choices)

ExistingRowValues ==
    {(TitleId :> Str(<<"a">>)) @@ (StatusId :> status) @@ (ColorId :> color) :
        status \in {Str(<<"Red">>), Obj([name |-> Str(<<"Blue">>)]), Null},
        color \in {Str(<<"Red">>), Null}}

ExistingRows ==
    {<<>>}
    \cup {<<[id |-> <<"A">>, values |-> v]>> : v \in ExistingRowValues}
    \cup {<<[id |-> <<"A">>, values |-> v], [id |-> <<"B">>, values |-> w]>> :
            v \in ExistingRowValues, w \in ExistingRowValues}

ExistingTables ==
    {[id |-> <<"grid-1">>, columns |-> ExistingColumns(choices), rows |-> rows] :
        rows \in ExistingRows,
        choices \in {<<[id |-> <<"o1">>, name |-> <<"Red">>], [name |-> <<"Blue">>]>>}}

\* A collection synced before through the form: its enum field holds the
\* cases the form pushed.
SyncedCollection ==
    [ConfiguredCollection({<<"A">>}, Str(<<"grid-1">>)) EXCEPT
        !.fields = <<Field(TitleId, <<"Headline">>, "string"),
                     [id |-> ColorId, name |-> <<"Colour">>, type |-> "enum",
                      cases |-> <<[id |-> <<"o1">>, name |-> <<"Red">>,
                                   nameByLocale |-> [en |-> <<"Red">>]]>>]>>]

\* A collection synced by the Status column when that column held text; the
\* column is a lookup now and its field an enum.
SluggedByStatus ==
    [ConfiguredCollection({<<"A">>}, Str(<<"grid-1">>)) EXCEPT
        !.pluginData["slugFieldId"] = Str(StatusId)]

\* The plug-in was opened without its window: syncExistingCollection is about
\* to be called.
OpenedToSync ==
    /\ machineTz = 0 - 4
    /\ PureIdle
    /\ framerData = [use12HourTimeFormat |-> Null]
    /\ props = [previousDataSourceId |-> dest.pluginData["dataSourceId"],
                previousSlugFieldId |-> dest.pluginData["slugFieldId"]]
    /\ app = [InitialApp EXCEPT !.mounted = FALSE]
    /\ load = NoLoad
    /\ form = NoForm
    /\ syncs = <<>>
    /\ calls = [w \in {0} |-> <<>>]
    /\ notices = {}

InitExisting ==
    /\ table \in ExistingTables
    /\ dest \in {FreshCollection, ConfiguredCollection({<<"A">>}, Str(<<"grid-1">>)),
                 SyncedCollection, SluggedByStatus}
    /\ (Mounted \/ OpenedToSync)

\* A variant of ExistingSlugField that falls back to the Row ID field.
ExistingSlugField_OrRowId(result, previousSlugFieldId) ==
    IF result = Thrown THEN Null
    ELSE LET slugs == possibleSlugFields(result.dataSource)
             found == {j \in 1..Len(slugs) : Str(slugs[j].id) = previousSlugFieldId}
         IN  IF found = {} THEN defaultSlugField
             ELSE slugs[CHOOSE j \in found : \A m \in found : j <= m]

\* possibleSlugFields.find(field => field.id === previousSlugFieldId), or Null
ExistingSlugField(result, previousSlugFieldId) ==
    IF result = Thrown THEN Null
    ELSE LET slugs == possibleSlugFields(result.dataSource)
             found == {j \in 1..Len(slugs) : Str(slugs[j].id) = previousSlugFieldId}
         IN  IF found = {} THEN Null
             ELSE slugs[CHOOSE j \in found : \A m \in found : j <= m]

\* syncExistingCollection(collection, previousDataSourceId, previousSlugFieldId)
\* up to its await of syncCollection, under framer.mode = mode.  A call that
\* returns { didSync: false } before syncing is recorded as skipped; a
\* rejection of syncCollection is caught by the function itself.
SyncExisting(mode, fetched) ==
    /\ ~app.mounted /\ syncs = <<>>
    /\ \E result \in {getDataSourceResult(fetched)} :
       \E slugField \in {ExistingSlugField(result, props.previousSlugFieldId)} :
       \E starts \in {/\ props.previousDataSourceId \notin {Null, Str(<<>>)}
                      /\ mode = "syncManagedCollection"
                      /\ props.previousSlugFieldId \notin {Null, Str(<<>>)}
                      /\ result # Thrown
                      /\ slugField # Null} :
          syncs' =
             <<[pc |-> IF starts THEN "prepare" ELSE "skipped",
                at |-> 1, attached |-> FALSE, handled |-> TRUE,
                fields |-> IF starts
                           THEN CompatibleFields(
                                    mergeFieldsWithExistingFields(result.dataSource.fields,
                                                                  dest.fields))
                           ELSE <<>>,
                slugField |-> IF starts THEN slugField ELSE defaultSlugField,
                source |-> IF starts THEN result ELSE Null,
                existing |-> {}, unsynced |-> {}, items |-> <<>>,
                before |-> Bookkeeping(dest.pluginData)]>>
    /\ calls' = [w \in 0..1 |-> IF w \in DOMAIN calls THEN calls[w] ELSE <<>>]
    /\ UNCHANGED <<machineTz, pureVars, table, framerData, dest, props, app, load, form,
                   notices>>

NextExisting ==
    \/ \E mode \in {"syncManagedCollection", "configureManagedCollection"},
          fetched \in BOOLEAN : SyncExisting(mode, fetched)
    \/ SelectDataSource
    \/ \E fetched \in BOOLEAN : LoadSettles(fetched)
    \/ FormFieldsLoaded
    \/ (syncs = <<>> /\ Import)
    \/ \E k \in 1..Len(syncs) : SyncPrepare(k)
    \/ \E k \in 1..Len(syncs), ok \in BOOLEAN : SyncSetFields(k, ok)
    \/ \E k \in 1..Len(syncs), ok \in BOOLEAN : SyncRemoveItems(k, ok)
    \/ \E k \in 1..Len(syncs), ok \in BOOLEAN : SyncAddItems(k, ok)
    \/ \E k \in 1..Len(syncs), ok \in BOOLEAN : SyncSetPluginData(k, ok)
    \/ \E k \in 1..Len(syncs) : SubmitSettles(k)

SpecExisting == InitExisting /\ [][NextExisting]_vars

----------------------------------------------------------------------------
----------------------------------------------------------------------------
(* Properties of syncCollection (Spec) *)

\* The ids of the rows of a batch that have a row id and a slug value.
BatchIds(items, slugField) ==
    {items[i][IdKey].value.s :
        i \in {j \in 1..Len(items) :
                /\ items[j][IdKey].value.s # <<>>
                /\ slugField.id \in DOMAIN items[j]
                /\ ToStringJS(items[j][slugField.id].value) # <<>>}}

ItemIds(items) == {items[i].id : i \in 1..Len(items)}

\* The places of the calls of one operation in the log of the k-th sync.
CallsOf(k, op) == {i \in 1..Len(calls[k]) : calls[k][i].op = op}

WriteFailed(k, ops) ==
    \E i \in 1..Len(calls[k]) : calls[k][i].op \in ops /\ ~calls[k][i].ok

\* C1: with E the ids the destination held when the sync read them and S the
\* ids of the batch's rows that have a row id and a slug value, removeItems
\* is called with exactly E \ S, addItems with items whose ids are exactly S,
\* each with draft = false, and once addItems succeeded the destination holds
\* exactly S.
C1_Reconciliation ==
    \A k \in 1..Len(syncs) :
        LET S == BatchIds(syncs[k].source.dataSource.items, syncs[k].slugField)
            E == syncs[k].existing
        IN  /\ \A i \in CallsOf(k, "removeItems") : calls[k][i].arg = E \ S
            /\ \A i \in CallsOf(k, "addItems") :
                  /\ ItemIds(calls[k][i].arg) = S
                  /\ \A m \in 1..Len(calls[k][i].arg) : calls[k][i].arg[m].draft = FALSE
            /\ (\E i \in CallsOf(k, "addItems") : calls[k][i].ok) => dest.itemIds = S

\* C1 happens: E = {A, B}, S = {B, C}; A was removed, C added, B kept.
C1_Witness ==
    \E k \in 1..Len(syncs) :
        /\ syncs[k].pc = "resolved"
        /\ syncs[k].existing = {<<"A">>, <<"B">>}
        /\ calls[k][2].arg = {<<"A">>}
        /\ dest.itemIds = {<<"B">>, <<"C">>}

\* C2: in the calls of a sync, a successful setFields precedes every
\* removeItems and addItems, a successful addItems precedes every write of a
\* bookkeeping key, and once the sync resolved the three keys hold the data
\* source id, the slug field id and the upstream table id.
C2_WriteOrder ==
    \A k \in 1..Len(syncs) :
        /\ \A i \in CallsOf(k, "removeItems") \cup CallsOf(k, "addItems") :
              \E j \in 1..(i - 1) : calls[k][j].op = "setFields" /\ calls[k][j].ok
        /\ \A i \in CallsOf(k, "setPluginData") :
              \E j \in 1..(i - 1) : calls[k][j].op = "addItems" /\ calls[k][j].ok
        /\ syncs[k].pc = "resolved" =>
              /\ dest.pluginData["dataSourceId"] = Str(table.id)
              /\ dest.pluginData["slugFieldId"] = Str(syncs[k].slugField.id)
              /\ dest.pluginData["codaTableId"] = Str(table.id)

\* C2 happens: a sync resolved and replaced the bookkeeping of an earlier one.
C2_Witness ==
    \E k \in 1..Len(syncs) :
        /\ syncs[k].pc = "resolved"
        /\ syncs[k].before["dataSourceId"] = Str(<<"grid-0">>)
        /\ syncs[k].before["codaTableId"] = Null
        /\ Len(calls[k]) = 6

\* C3: a sync in which setFields, removeItems or addItems failed rejected (its
\* caller shows the error, never the success message), wrote no bookkeeping
\* key, and the three keys hold what they held when the sync was called.
C3_WriteFailure ==
    \A k \in 1..Len(syncs) :
        WriteFailed(k, {"setFields", "removeItems", "addItems"}) =>
            /\ syncs[k].pc = "rejected"
            /\ CallsOf(k, "setPluginData") = {}
            /\ \A key \in BookkeepingKeys : dest.pluginData[key] = syncs[k].before[key]
            /\ Notice(k, "sync-success") \notin notices
            /\ syncs[k].handled => Notice(k, "sync-failed") \in notices

\* C3 happens: addItems failed after setFields and removeItems went through,
\* and the form's handler has shown the error.
C3_Witness ==
    \E k \in 1..Len(syncs) :
        /\ WriteFailed(k, {"addItems"})
        /\ syncs[k].handled
        /\ syncs[k].before["slugFieldId"] = Str(TitleId)

\* C4 as stated: when the upstream data arrived and the image cell of some
\* row is an array holding null, whose transformation throws, the load still
\* delivers the data source with the other rows, so that a sync can write.
C4_RowErrorDoesNotAbort ==
    (/\ load.pc \in {"delivered", "rejected"}
     /\ load.fetched
     /\ \E i \in 1..Len(table.rows) : table.rows[i].values[CoverId] = Arr(<<Null>>))
        => /\ load.pc = "delivered"
           /\ app.mounted => app.dataSourceResult # Null

\* The slug a row gets: its row id under the Row ID field, its trimmed title
\* under the title field, <<>> when the row has no title.
RowSlug(row, slugField) ==
    IF slugField.id = IdKey THEN row.id
    ELSE IF slugField.id \in DOMAIN row.values /\ row.values[slugField.id].k = "string"
    THEN Trim(row.values[slugField.id].s)
    ELSE <<>>

\* C5: addItems gets one item for each row of the table that has a row id and
\* a slug, and none for the others; a sync only rejects when a write failed;
\* and under the Row ID field the slug of every item is its id.
C5_SkippedRows ==
    \A k \in 1..Len(syncs) :
        LET kept == {j \in 1..Len(table.rows) :
                        /\ table.rows[j].id # <<>>
                        /\ RowSlug(table.rows[j], syncs[k].slugField) # <<>>}
        IN  /\ \A i \in CallsOf(k, "addItems") :
                  /\ ItemIds(calls[k][i].arg) = {table.rows[j].id : j \in kept}
                  /\ Len(calls[k][i].arg) = Cardinality(kept)
                  /\ \A m \in 1..Len(calls[k][i].arg) :
                        /\ calls[k][i].arg[m].slug # <<>>
                        /\ syncs[k].slugField.id = IdKey =>
                              calls[k][i].arg[m].slug = calls[k][i].arg[m].id
            /\ syncs[k].pc = "rejected" =>
                  WriteFailed(k, {"setFields", "removeItems", "addItems", "setPluginData"})

\* C5 happens: of two rows the first has a blank title, and the sync by
\* title resolved having added the second row only.
C5_Witness ==
    \E k \in 1..Len(syncs) :
        /\ syncs[k].pc = "resolved"
        /\ syncs[k].slugField.id = TitleId
        /\ Len(table.rows) = 2
        /\ table.rows[1].values = RowValues(Str(Blank(1)), Str(AssetUrl), Null)
        /\ table.rows[1].id # <<>>
        /\ Len(calls[k][3].arg) = 1
        /\ calls[k][3].arg[1].id = table.rows[2].id

\* The items handed to addItems, with the row each came from and the sync.
EmptyDateItems ==
    {<<k, i, m, j>> \in (1..Len(syncs)) \X (1..6) \X (1..MaxRows + 1) \X (1..MaxRows + 1) :
        /\ i \in CallsOf(k, "addItems")
        /\ m \in 1..Len(calls[k][i].arg)
        /\ j \in 1..Len(table.rows)
        /\ table.rows[j].id = calls[k][i].arg[m].id
        /\ table.rows[j].values[DueId] \in {Null, Str(<<>>)}
        /\ \E f \in 1..Len(syncs[k].fields) : syncs[k].fields[f].id = DueId}

ButtonIds ==
    {table.columns[i].id :
        i \in {j \in 1..Len(table.columns) :
                 LowerTok(table.columns[j].format.type) = "button"}}

\* C14: the mapper returns null for a button column; the data source App
\* holds has no field of its id and no item with an entry under its id; and
\* no sync pushes a field of its id or writes an item with an entry under it.
C14_ButtonColumnDropped ==
    /\ \A i \in 1..Len(table.columns) :
          table.columns[i].id \in ButtonIds =>
              mapCodaTypeToFramerType(LoadedColumn(table.columns[i])) = Null
    /\ app.dataSourceResult # Null =>
          LET dataSource == app.dataSourceResult.dataSource
          IN  /\ \A f \in 1..Len(dataSource.fields) : dataSource.fields[f].id \notin ButtonIds
              /\ \A i \in 1..Len(dataSource.items) : DOMAIN dataSource.items[i] \cap ButtonIds = {}
    /\ \A k \in 1..Len(syncs) :
          /\ \A i \in CallsOf(k, "setFields") : \A f \in 1..Len(calls[k][i].arg) :
                calls[k][i].arg[f].id \notin ButtonIds
          /\ \A i \in CallsOf(k, "addItems") : \A m \in 1..Len(calls[k][i].arg) :
                DOMAIN calls[k][i].arg[m].fieldData \cap ButtonIds = {}

\* C14 happens: a row that holds a value under the button column was loaded
\* and written by a sync that pushed the other three fields.
C14_Witness ==
    /\ ButtonIds = {OpenId}
    /\ app.dataSourceResult # Null
    /\ Len(app.dataSourceResult.dataSource.items) = 1
    /\ OpenId \in DOMAIN table.rows[1].values
    /\ \E k \in 1..Len(syncs) :
          /\ syncs[k].pc = "resolved"
          /\ Len(calls[k][1].arg) = 3
          /\ Len(calls[k][3].arg) = 1

\* C26: removeItems is never given the id of a row of the source batch.
C26_SourceRowsAreNotRemoved ==
    \A k \in 1..Len(syncs) :
        \A i \in CallsOf(k, "removeItems") :
            \A j \in 1..Len(syncs[k].source.dataSource.items) :
                RowIdOf(syncs[k].source.dataSource.items[j]) \notin calls[k][i].arg

----------------------------------------------------------------------------
(* Properties of the navigation (SpecUI) *)

\* The load of App's effect was cancelled before it settled.
LoadCancelled ==
    load.via = "effect" /\ load.aborted /\ load.pc \in {"fetching", "dropped"}

AllWrites == {"setFields", "removeItems", "addItems", "setPluginData"}

\* A step that unmounts App, which aborts the controller of the effect,
\* leaves every call of syncCollection where it was, with its writes.
AbortKeepsSyncs ==
    (app.mounted /\ ~app'.mounted) =>
        /\ calls' = calls
        /\ Len(syncs') = Len(syncs)
        /\ \A k \in 1..Len(syncs) :
              /\ syncs'[k].pc = syncs[k].pc
              /\ syncs'[k].at = syncs[k].at
              /\ syncs'[k].items = syncs[k].items

\* C6: a load whose cancellation token was aborted before it settled has
\* written nothing to the collection and has led to no call of
\* syncCollection; aborting leaves a running syncCollection untouched, and a
\* syncCollection only ever rejects because one of its writes failed.
C6_CancellationBeforeWriting ==
    /\ [](LoadCancelled =>
            /\ \A w \in DOMAIN calls : calls[w] = <<>>
            /\ syncs = <<>>
            /\ app.dataSourceResult = Null
            /\ dest.pluginData["dataSourceId"] = props.previousDataSourceId
            /\ dest.pluginData["slugFieldId"] = props.previousSlugFieldId)
    /\ [](\A k \in 1..Len(syncs) : syncs[k].pc = "rejected" => WriteFailed(k, AllWrites))
    /\ [][AbortKeepsSyncs]_vars

\* C6 happens: the window was closed while the effect's load was running, and
\* the data arrived afterwards.
C6_Witness ==
    /\ load.via = "effect" /\ load.aborted /\ load.pc = "dropped" /\ load.fetched
    /\ ~app.mounted

\* The calls of syncCollection that have not settled.
InFlight == {k \in 1..Len(syncs) : syncs[k].pc \in {"prepare", "writing"}}

\* C7 as stated: at most one call of syncCollection is in flight, and while
\* one is, the form that started it shows 'syncing-collection'.
C7_OneSyncInFlight ==
    /\ Cardinality(InFlight) <= 1
    /\ \A k \in InFlight : syncs[k].attached => form.status = "syncing-collection"

ConfigurationKeys == {"apiKey", "docId", "tableId"}

\* C24: a selection whose load fails writes nothing, and the collection holds
\* what it held; a value is stored under apiKey, docId or tableId only by the
\* step that ends a successful selection, which stores all three.
C24_ConfigurationOnlyAfterLoading ==
    [][/\ (load.via = "select" /\ load.pc = "fetching" /\ load'.pc = "rejected")
            => (dest' = dest /\ calls' = calls)
       /\ (\E key \in ConfigurationKeys :
              /\ dest'.pluginData[key] # dest.pluginData[key]
              /\ dest'.pluginData[key] # Null)
            => /\ load.via = "select" /\ load.pc = "fetching" /\ load'.pc = "delivered"
               /\ dest'.pluginData["apiKey"] = Str(ApiKey)
               /\ dest'.pluginData["docId"] = Str(DocId)
               /\ dest'.pluginData["tableId"] = Str(table.id)]_vars

\* C24 happens: on a collection whose table Back had cleared, a selection failed, and the
\* collection still holds the api key and no table.
C24_Witness ==
    /\ load.via = "select" /\ load.pc = "rejected"
    /\ dest.pluginData["apiKey"] = Str(ApiKey)
    /\ dest.pluginData["tableId"] = Null
    /\ Notice(0, "load-failed") \in notices

\* The keys syncCollection's bookkeeping is read back from at the next start.
SyncKeys == {PLUGIN_KEYS.DATA_SOURCE_ID, PLUGIN_KEYS.SLUG_FIELD_ID}

IsStored(collection, keys) ==
    \A key \in keys : collection.pluginData[key] \notin {Null, Str(<<>>)}

CanResync(collection) ==
    IsStored(collection, SyncKeys) => IsStored(collection, ConfigurationKeys)

\* C28: no step of the session takes the collection from a state where the
\* configuration (apiKey, docId, tableId) is stored whenever the sync
\* bookkeeping (dataSourceId, slugFieldId) is, to a state where the
\* bookkeeping is stored without the configuration.
C28_BookkeepingImpliesConfiguration ==
    [][CanResync(dest) => CanResync(dest')]_vars

----------------------------------------------------------------------------
(* Properties of transformCodaValue (SpecTransform) *)

\* null, undefined, or a string of white space only
ValueIsBlank(v) ==
    \/ v.k \in {"null", "undefined"}
    \/ v.k = "string" /\ \A i \in 1..Len(v.s) : v.s[i] = " "

\* The destination types the statement names, with the result it gives each;
\* Null is "no entry".
BlankResultByType ==
    [string |-> Entry("string", Str(<<>>)),
     number |-> Entry("number", Num(0)),
     boolean |-> Entry("boolean", Bool(FALSE)),
     image |-> Entry("image", Str(<<>>)),
     file |-> Entry("file", Str(<<>>)),
     link |-> Entry("link", Str(<<>>)),
     enum |-> Entry("enum", Str(<<>>)),
     collectionReference |-> Entry("collectionReference", Str(<<>>)),
     multiCollectionReference |-> Entry("multiCollectionReference", Arr(<<>>)),
     date |-> Null]

IsOffsetDateTime(v) ==
    /\ IsString(v)
    /\ Len(v.s) = 5
    /\ v.s[1] \in DayTokens /\ v.s[2] = "T" /\ v.s[3] \in Range(HourTokens)
    /\ v.s[5] \in ZoneTokens

\* C15 as stated: for a datetime column, a raw value with calendar and clock
\* fields and a UTC offset is written as the date entry of those same fields
\* with the label Z, whatever the time zone of the machine: that is what
\* transformCodaValue returns to getCodaDataSource, and what it returns to
\* syncCollection, which transforms the entry's value once more.
C15_WallClockKept ==
    (/\ tResult # Pending
     /\ tInput.field.type = "date"
     /\ tInput.codaColumnType = "datetime"
     /\ IsOffsetDateTime(tInput.value))
        => /\ tResult = Entry("date", Str(<<tInput.value.s[1], "T", tInput.value.s[3],
                                            ":00:00.000", "Z">>))
           /\ transformCodaValue(tResult.value, tInput.field, tInput.codaColumnType,
                                 tInput.use12HourTime) = tResult

\* The number the statement gives a raw value that is not blank; NaN where it
\* names none.
StatedNumber(v) ==
    CASE IsNumber(v) -> v
      [] v = Str(<<"$", "1", ",", "234", ".", "50">>) -> NumQ(2469, 2)
      [] v = Str(<<"15", "%">>) -> NumQ(15, 100)
      [] v = Str(<<"5">>) -> Num(5)
      [] v = Str(<<"€", " ", "5">>) -> Num(5)
      [] IsPlainObject(v) /\ (\E key \in {"amount", "value"} :
                                key \in DOMAIN v.p /\ IsNumber(v.p[key])) -> NaN
      [] OTHER -> Num(0)

\* C16: for a number field and a raw value that is not blank, the result is
\* always a number entry: the raw number itself; the number a string spells
\* once the currency symbols and commas are removed, divided by 100 under a
\* trailing %; the numeric amount or value of an object; and 0 for anything
\* else.
C16_NumberParsing ==
    (tResult # Pending /\ tInput.field.type = "number" /\ ~ValueIsBlank(tInput.value))
        => /\ tResult \notin {Null, Thrown}
           /\ tResult.type = "number"
           /\ IsNumber(tResult.value)
           /\ IF IsNaN(StatedNumber(tInput.value))
              THEN \E key \in {"amount", "value"} :
                      /\ key \in DOMAIN tInput.value.p
                      /\ tResult.value = tInput.value.p[key]
              ELSE tResult.value = StatedNumber(tInput.value)

\* C16 happens: "$1,234.50" gave 1234.5.
C16_Witness ==
    /\ tResult = Entry("number", NumQ(2469, 2))
    /\ tInput.value = Str(<<"$", "1", ",", "234", ".", "50">>)

ProbedProperties == <<"rawValue", "value", "displayValue", "name", "content">>

\* The first of the probed properties of an object that holds a string (a
\* string that is not empty, when nonEmpty is set), or the stringified object.
RECURSIVE FirstProbed(_, _, _)
FirstProbed(v, keys, nonEmpty) ==
    IF keys = <<>> THEN ToStringJS(v)
    ELSE IF /\ Head(keys) \in DOMAIN v.p
            /\ IsString(v.p[Head(keys)])
            /\ (nonEmpty => v.p[Head(keys)].s # <<>>)
    THEN v.p[Head(keys)].s
    ELSE FirstProbed(v, Tail(keys), nonEmpty)

\* The text of a string, an object or anything else, as the statement reads.
ProbedText(v, nonEmpty) ==
    IF IsString(v) THEN v.s
    ELSE IF IsPlainObject(v) THEN FirstProbed(v, ProbedProperties, nonEmpty)
    ELSE ToStringJS(v)

\* The texts of the elements with ', ' between them; the empty texts are left
\* out when nonEmpty is set.
RECURSIVE JoinedTexts(_, _, _)
JoinedTexts(texts, nonEmpty, first) ==
    IF texts = <<>> THEN <<>>
    ELSE IF nonEmpty /\ Head(texts) = <<>> THEN JoinedTexts(Tail(texts), nonEmpty, first)
    ELSE (IF first THEN <<>> ELSE <<",", " ">>) \o Head(texts)
         \o JoinedTexts(Tail(texts), nonEmpty, FALSE)

IsWebPage(v) ==
    /\ IsPlainObject(v)
    /\ "@type" \in DOMAIN v.p /\ v.p["@type"] = Str(<<"WebPage">>)
    /\ "url" \in DOMAIN v.p /\ IsString(v.p["url"])

HoldsRawValueArray(v) ==
    IsPlainObject(v) /\ "rawValue" \in DOMAIN v.p /\ IsArray(v.p["rawValue"])

IsAbsoluteOrHosted(url) ==
    \/ url # <<>> /\ url[1] \in {"http://", "https://"}
    \/ \E i \in 1..Len(url) : url[i] = "codahosted.io/"

ValidUrlsOf(obj) ==
    LET names == <<"url", "contentUrl", "thumbnailUrl">>
        valid == {i \in 1..3 : /\ names[i] \in DOMAIN obj.p
                               /\ IsString(obj.p[names[i]])
                               /\ IsUsableImageUrl(obj.p[names[i]].s)}
        Ordered[i \in 0..3] ==
            IF i = 0 THEN <<>>
            ELSE IF i \in valid THEN Append(Ordered[i - 1], obj.p[names[i]].s)
            ELSE Ordered[i - 1]
    IN  Ordered[3]

\* C19: for an image field, an ImageObject gives the first of its url,
\* contentUrl, thumbnailUrl that passes the validation, an array of
\* ImageObjects gives that of its first object that has one, and an
\* ImageObject with a valid url among the three never gives no entry.
C19_FirstValidUrlOfImageObject ==
    (tResult # Pending /\ tInput.field.type = "image")
        => LET v == tInput.value
               withUrl == IF IsArray(v)
                          THEN {i \in 1..Len(v.e) : ValidUrlsOf(v.e[i]) # <<>>}
                          ELSE {}
               first == CHOOSE i \in withUrl : \A j \in withUrl : i <= j
           IN  /\ (IsImageObject(v) /\ ValidUrlsOf(v) # <<>>)
                    => tResult = Entry("image", Str(Trim(ValidUrlsOf(v)[1])))
               /\ (/\ IsArray(v)
                   /\ \A i \in 1..Len(v.e) : IsImageObject(v.e[i])
                   /\ withUrl # {})
                    => tResult = Entry("image", Str(Trim(ValidUrlsOf(v.e[first])[1])))

\* C25: transforming the value of an entry again, for the same field, column
\* type and clock preference, gives the same entry.
C25_TransformIsIdempotent ==
    (tResult \notin {Pending, Null, Thrown})
        => transformCodaValue(tResult.value, tInput.field, tInput.codaColumnType,
                              tInput.use12HourTime) = tResult

----------------------------------------------------------------------------
(* Properties of mapCodaTypeToFramerType (SpecMap) *)

\* The display name or the id contains 'image' or 'graphic', in any case.
HasImageWord(column) ==
    \E w \in {"image", "graphic"} :
        w \in Range(ToLowerCase(column.name)) \cup Range(ToLowerCase(column.id))

\* C10 as stated: every column whose name or id contains 'image' or 'graphic'
\* is mapped to a field of type image, whatever its declared type.
C10_NameRuleFirst ==
    (mResult # Pending /\ HasImageWord(mColumn))
        => (mResult # Null /\ mResult.type = "image")

\* C10, amended: a column whose name or id contains 'image' or 'graphic' is
\* skipped (null) when its declared type is button, and is mapped to the image
\* field of its id and name for every other declared type: only the button
\* skip comes before the name rule.
C10_NameRuleAfterButtonSkip ==
    (mResult # Pending /\ HasImageWord(mColumn))
        => IF LowerTok(mColumn.format.type) = "button"
           THEN mResult = Null
           ELSE mResult = Field(mColumn.id, mColumn.name, "image")

\* C10 happens: a select column with a choice list, which the enum rule would
\* take, is named like an image and was mapped to image.
C10_Witness ==
    /\ mResult # Pending
    /\ HasImageWord(mColumn)
    /\ mColumn.format.type = "select"
    /\ mColumn.format.options.isArray
    /\ mResult = Field(mColumn.id, mColumn.name, "image")

\* The column declares a choice list, in one of the two shapes of
\* format.options.
DeclaresChoices(column) ==
    /\ LowerTok(column.format.type) \in {"select", "scale"}
    /\ "options" \in DOMAIN column.format

\* The case a declared choice is to give: id = the choice's id, or its name
\* when it has none, and name = the choice's name.
DeclaredCase(choice) ==
    [id |-> IF "id" \in DOMAIN choice THEN choice.id ELSE choice.name,
     name |-> choice.name]

\* C11 as stated: a select or scale column that declares a choice list, and
\* is not named like an image, is mapped to the enum field of its id and name
\* whose cases are the declared choices in order.
C11_ChoicesBecomeEnum ==
    (mResult # Pending /\ DeclaresChoices(mColumn) /\ ~HasImageWord(mColumn))
        => mResult = [id |-> mColumn.id, name |-> mColumn.name, type |-> "enum",
                      cases |-> [i \in 1..Len(mColumn.format.options.choices) |->
                                    DeclaredCase(mColumn.format.options.choices[i])]]

EmptyEnum(column) ==
    [id |-> column.id, name |-> column.name, type |-> "enum", cases |-> <<>>]

SingleValued(column) ==
    "isArray" \notin DOMAIN column.format \/ ~column.format.isArray

----------------------------------------------------------------------------
(* Properties of the enum cases (SpecEnum) *)

\* The cases of the field 'id' in a field list.
CasesOf(fields, id) == FieldById(fields, id).cases

\* The pairs of a case of the first load and a case of the second load that
\* belong to the same field.
CasePairs ==
    {<<a, b>> \in UNION {Range(CasesOf(eFirst, id)) \X Range(CasesOf(eSecond, id)) :
                            id \in {StatusId, ColorId}} : TRUE}

IsCollected(cases, rows) ==
    LET values == Range(LookupValues(rows, StatusId)) \ {<<>>}
        first(v) == CHOOSE i \in 1..Len(LookupValues(rows, StatusId)) :
                        /\ LookupValues(rows, StatusId)[i] = v
                        /\ \A j \in 1..(i - 1) : LookupValues(rows, StatusId)[j] # v
    IN  /\ {c.id : c \in Range(cases)} = values
        /\ Len(cases) = Cardinality(values)
        /\ \A i \in 1..Len(cases) : cases[i].id = cases[i].name
        /\ \A i, j \in 1..Len(cases) : i < j => first(cases[i].id) < first(cases[j].id)

\* The case list expected of the select column: a case per declared choice,
\* in order, with the choice's name and with the id of the choice, or its
\* name when it has no id, or 'choice-<index>' when it has neither.
IsDeclared(cases, choices) ==
    /\ Len(cases) = Len(choices)
    /\ \A i \in 1..Len(choices) :
          /\ cases[i].name = choices[i].name
          /\ cases[i].id = IF "id" \in DOMAIN choices[i] THEN choices[i].id
                           ELSE IF choices[i].name # <<>> THEN choices[i].name
                           ELSE <<"choice-", ToString(i - 1)>>

EmittedItems ==
    LoadedItems(eInput.first.rows, eFirst,
                [i \in 1..2 |-> LoadedColumn(EnumColumns(eInput.first.choices)[i])], FALSE)

\* C29: every enum value that is not empty and is emitted for the
\* single-valued lookup column of a row is the id of one of the cases
\* collected for that field from the same rows.
C29_EmittedValueIsACase ==
    eFirst # Pending =>
        \A i \in 1..Len(EmittedItems) :
            (StatusId \in DOMAIN EmittedItems[i] /\ EmittedItems[i][StatusId].value.s # <<>>)
                => \E c \in Range(CasesOf(eFirst, StatusId)) :
                      c.id = EmittedItems[i][StatusId].value.s

----------------------------------------------------------------------------
(* Properties of findCollectionByCodaTableId (SpecLookup) *)

FoundAt(i) == [id |-> lInput.collections[i].id, name |-> lInput.collections[i].name]

\* The collections whose stored table id is the target.
ExactMatches ==
    {i \in 1..Len(lInput.collections) : lInput.collections[i].codaTableId = Str(TargetId)}

\* The collections whose stored table the upstream, asked with the collection's
\* api key and doc id, declares to be a view of the target.
DeclaredViews ==
    {i \in 1..Len(lInput.collections) :
        /\ lInput.collections[i].codaTableId \notin {Null, Str(<<>>)}
        /\ lInput.collections[i].configured
        /\ lInput.response = "ok"
        /\ LET data == TableData(lInput.collections[i].codaTableId.s)
           IN  \/ "parent" \in DOMAIN data /\ data.parent.id = TargetId
               \/ "parentTable" \in DOMAIN data /\ data.parentTable.id = TargetId}

IsMultiLookup(column) ==
    column.format.type = "lookup" /\ "isArray" \in DOMAIN column.format /\ column.format.isArray

\* The result is the first collection of 'exact', else the first of 'views',
\* else null; null on an error of the Framer API; and a multi-valued lookup
\* column without a collection is a string field.
ResolvedFrom(exact, views) ==
    /\ IF lInput.framerThrows THEN lResult.found = Null
       ELSE IF exact # {} THEN lResult.found = FoundAt(CHOOSE i \in exact : \A j \in exact : i <= j)
       ELSE IF views # {} THEN lResult.found = FoundAt(CHOOSE i \in views : \A j \in views : i <= j)
       ELSE lResult.found = Null
    /\ (IsMultiLookup(lInput.column) /\ lResult.found = Null)
          => lResult.field = Field(lInput.column.id, lInput.column.name, "string")

\* C22: a collection whose stored table id is the target is
\* returned; otherwise one whose stored table is declared upstream to be a
\* view of the target; otherwise, or on an error, null, and the multi-valued
\* lookup column stays a string field.
C22_TwoPassResolution ==
    lResult # Pending => ResolvedFrom(ExactMatches, DeclaredViews)

----------------------------------------------------------------------------
(* Properties of the upstream requests (SpecRequests) *)

\* The message holds the words of 'text', one after the other.
HoldsText(message, text) ==
    \E at \in 0..(Len(message) - Len(text)) :
        \A i \in 1..Len(text) : message[at + i] = text[i]

\* C23: a request for the table, the columns or the rows that is answered
\* with a failure rejects the call, and the error names the status and holds
\* the body of that answer.
C23_ErrorNamesStatusAndBody ==
    uResult # Pending
        => \A request \in {"table", "columns", "rows"} :
              uResult.failed = request
                  => /\ uResult.rejected
                     /\ HoldsText(uResult.message, <<ToString(uInput[request].status)>>)
                     /\ HoldsText(uResult.message, uInput[request].body)

----------------------------------------------------------------------------
(* Properties of the pushed schema (SpecExisting) *)

\* The case list of an enum field is fully formed: every case has an id that
\* is not empty, a name, and the display text keyed by locale.
FullyFormed(field) ==
    /\ "cases" \in DOMAIN field
    /\ \A i \in 1..Len(field.cases) :
          /\ "id" \in DOMAIN field.cases[i] /\ field.cases[i].id # <<>>
          /\ "name" \in DOMAIN field.cases[i]
          /\ "nameByLocale" \in DOMAIN field.cases[i]

EnumsFullyFormed(k) ==
    \A i \in CallsOf(k, "setFields") :
        \A j \in 1..Len(calls[k][i].arg) :
            calls[k][i].arg[j].type = "enum" => FullyFormed(calls[k][i].arg[j])

\* C20: in every call of setFields by a sync, started from the form or by
\* syncExistingCollection, every enum field of the pushed schema carries a
\* fully formed case list.
C20_EnumCasesFullyFormed == \A k \in 1..Len(syncs) : EnumsFullyFormed(k)

\* C21: the fields the form shows once collection.getFields() answered are
\* the merge of the source fields with the persisted ones: one field per
\* source field, in source order; a field whose id is persisted has the
\* persisted name and everything else (type, cases) from the source field; a
\* field that is not persisted is the source field.
C21_MergeKeepsNames ==
    (form.mounted /\ form.fieldsLoaded /\ syncs = <<>>)
        => LET source == app.dataSourceResult.dataSource.fields
           IN  /\ Len(form.fields) = Len(source)
               /\ \A i \in 1..Len(source) :
                     LET persisted == {j \in 1..Len(dest.fields) :
                                          dest.fields[j].id = source[i].id}
                     IN  IF persisted = {} THEN form.fields[i] = source[i]
                         ELSE /\ \E j \in persisted :
                                    form.fields[i].name = dest.fields[j].name
                              /\ DOMAIN form.fields[i] = DOMAIN source[i]
                              /\ \A key \in DOMAIN source[i] \ {"name"} :
                                    form.fields[i][key] = source[i][key]

\* C21 happens: the persisted enum field Colour, with one case, met the source
\* field Color with two, next to a source field that is not persisted.
C21_Witness ==
    /\ form.mounted /\ form.fieldsLoaded /\ syncs = <<>>
    /\ dest = SyncedCollection
    /\ Len(form.fields) = 3
    /\ form.fields[3].name = <<"Colour">>
    /\ Len(form.fields[3].cases) = 2
    /\ form.fields[2].name = <<"Status">>

\* The return value of syncExistingCollection, read off the record of its
\* call: { didSync: true } follows the await of syncCollection.
didSync(s) == s.pc = "resolved"

\* The cases in which syncExistingCollection is to leave the destination
\* alone, under framer.mode = mode and a load that fetched or not.
LeavesAlone(mode, result) ==
    \/ props.previousDataSourceId \in {Null, Str(<<>>)}
    \/ props.previousSlugFieldId \in {Null, Str(<<>>)}
    \/ mode # "syncManagedCollection"
    \/ result = Thrown
    \/ /\ props.previousSlugFieldId # Str(IdKey)
       /\ \A i \in 1..Len(result.dataSource.fields) :
             ~(/\ result.dataSource.fields[i].type = "string"
               /\ Str(result.dataSource.fields[i].id) = props.previousSlugFieldId)

\* C30: a call of syncExistingCollection without a previous data source id
\* or slug field id, in another mode than syncManagedCollection, whose load
\* fails, or whose slug field id is neither '_id' nor the id of a string
\* field of the source, writes nothing and returns didSync = false; no
\* rejection escapes the function, and didSync = true is returned only when
\* every write of syncCollection has succeeded.
C30_SkipsWithoutWriting ==
    /\ [](\A k \in 1..Len(syncs) :
            /\ syncs[k].pc = "skipped" => \A w \in DOMAIN calls : calls[w] = <<>>
            /\ didSync(syncs[k]) =>
                  /\ Len(calls[k]) = Len(SyncSteps)
                  /\ \A i \in 1..Len(calls[k]) : calls[k][i].ok)
    /\ [][\A mode \in {"syncManagedCollection", "configureManagedCollection"},
             fetched \in BOOLEAN :
               SyncExisting(mode, fetched)
                  => /\ syncs'[1].handled
                     /\ LeavesAlone(mode, getDataSourceResult(fetched))
                          => /\ ~didSync(syncs'[1])
                             /\ syncs'[1].pc = "skipped"
                             /\ dest' = dest
                             /\ \A w \in DOMAIN calls' : calls'[w] = <<>>]_vars

\* The plug-in was opened to sync a collection whose slug field id names the
\* Status field, an enum: the call has returned without a write.
C30_Witness ==
    /\ Len(syncs) = 1
    /\ syncs[1].pc = "skipped"
    /\ props.previousSlugFieldId = Str(StatusId)
    /\ props.previousDataSourceId # Null
    /\ dest = SluggedByStatus
    /\ calls[1] = <<>>
====
